---- MODULE Spec2Model ----
(***************************************************************************)
(* State-machine model of the request-admission pipeline of the DDoS      *)
(* mitigation system: IPFilter, RateLimiter, TrafficMonitor and the       *)
(* DDoSMitigationSystem coordinator that composes them.                   *)
(*                                                                         *)
(* Time is the integer variable now: every time.time() read of a leaf     *)
(* call returns now, and the Tick action advances it.  Each leaf method   *)
(* runs under the leaf's lock, so it is one atomic step; a coordinator    *)
(* method is the sequence of its leaf calls, one step each, and steps of  *)
(* different threads interleave.  The endpoint and method strings are     *)
(* opaque pass-through data of the alert record and are not modelled.     *)
(* The request rate len/detection_window is compared with the threshold   *)
(* (a rational thr_num/thr_den) by cross-multiplication.                  *)
(***************************************************************************)
EXTENDS Integers, Sequences, FiniteSets, TLC

\* ------------------------------------------------------------- bounds
MaxTime == 2
MaxTimeConc == 1
MaxTimeRL == 3
MaxM == 2
MaxW == 2
MaxB == 2
MaxMonWindow == 2
MaxViolations == 2
MaxAlerts == 1
MaxBurstCalls == 103
MaxBurstTime == 301
\* severity inputs: threshold MaxThrNum/1 .. 1/MaxThrDen requests a second,
\* detection windows up to MaxDetWindow seconds, windows of up to MaxSevLen
\* timestamps (one more than ten times the largest threshold)
MaxThrNum == 2
MaxThrDen == 2
MaxDetWindow == 2
MaxSevLen == 41
\* the alert log: time runs to MaxTimeAlerts and one address collects up to
\* MaxAlertEvents violations, three more than the log holds
MaxTimeAlerts == 1
MaxAlertEvents == 103
\* reading the log: up to MaxRecentEvents violations, limits up to MaxLimit
MaxRecentEvents == 5
MaxLimit == 5
\* the monitor on its own: up to MaxMonViolations violations an address
MaxQuietCalls == 3
MaxMonViolations == 3

\* ------------------------------------------------- program constants
DefaultMaxRequests == 100
DefaultTimeWindow == 60
DefaultBlockDuration == 300
DefaultSuspiciousThreshold == 10
DefaultDetectionWindow == 10
DefaultAlertThreshold == 3
AnomalyBlockDuration == 600
AlertCapacity == 100
StatsAlertLimit == 5
CriticalFactor == 10
HighFactor == 5
MediumFactor == 2

Addr == {"a1", "a2"}
Threads == {"t1", "t2"}
Leaves == {"ip_filter", "rate_limiter", "traffic_monitor"}
NoThread == "none"

\* absent dictionary key / None
NoEntry == 0 - 1
NoIp == "none"

VARIABLES
    now,            \* time.time()
    cfg,            \* the configuration the components were built with
    whitelist,      \* IPFilter.whitelist
    blacklist,      \* IPFilter.blacklist
    temp_blocks,    \* IPFilter.temp_blocks : ip -> expiry (NoEntry: no key)
    requests,       \* RateLimiter.requests : ip -> list of timestamps
    blocked_ips,    \* RateLimiter.blocked_ips : ip -> expiry (NoEntry: no key)
    ip_requests,    \* TrafficMonitor.ip_requests : ip -> list of timestamps
    ip_violations,  \* TrafficMonitor.ip_violations : ip -> count
    alerts,         \* TrafficMonitor.alerts
    lock,           \* per leaf: the thread inside its "with self.lock"
    thr,            \* per thread: position in the coordinator method it runs
    last,           \* the step just taken and what it returned
    hist            \* observation history per address (not program state)

ipf_vars == <<whitelist, blacklist, temp_blocks>>
rl_vars == <<requests, blocked_ips>>
mon_vars == <<ip_requests, ip_violations, alerts>>
vars == <<now, cfg, lock, whitelist, blacklist, temp_blocks, requests, blocked_ips,
          ip_requests, ip_violations, alerts, thr, last, hist>>

\* ------------------------------------------------------ configuration
DefaultConfig ==
    [max_requests |-> DefaultMaxRequests, time_window |-> DefaultTimeWindow,
     block_duration |-> DefaultBlockDuration,
     thr_num |-> DefaultSuspiciousThreshold, thr_den |-> 1,
     detection_window |-> DefaultDetectionWindow,
     alert_threshold |-> DefaultAlertThreshold, auto_block |-> TRUE]

\* auto-block taken as off whatever the configuration says
AutoBlock_never == FALSE

\* auto-block taken as on whatever the configuration says
AutoBlock_always == TRUE

\* ip_blocking.auto_block read through ConfigManager.get
AutoBlock == cfg.auto_block

\* ------------------------------------------------------------ helpers
\* threading.Lock is not reentrant: "with self.lock" proceeds only while no
\* thread, the caller included, is inside the leaf's lock.  A leaf method
\* whose body calls nothing that blocks is one step: acquire, body, release.
Free(leaf) == lock[leaf] = NoThread

\* the list comprehension [r for r in w if current_time - r < window]
Prune(w, current_time, window) ==
    SelectSeq(w, LAMBDA r : current_time - r < window)

Min(a, b) == IF a < b THEN a ELSE b

Max(a, b) == IF a > b THEN a ELSE b

\* ------------------------------------------------------------ IPFilter
\* Every leaf method is a state function: the value it returns together
\* with the new value of each field it assigns.

\* the blacklist looked up before the whitelist
IPFilter_is_allowed_blacklist_first(ip) ==
    IF ip \in blacklist
    THEN [allowed |-> FALSE, reason |-> "IP is blacklisted",
          temp_blocks |-> temp_blocks]
    ELSE IF ip \in whitelist
    THEN [allowed |-> TRUE, reason |-> "Whitelisted", temp_blocks |-> temp_blocks]
    ELSE IF temp_blocks[ip] # NoEntry /\ now < temp_blocks[ip]
    THEN [allowed |-> FALSE, reason |-> "IP temporarily blocked",
          temp_blocks |-> temp_blocks]
    ELSE [allowed |-> TRUE, reason |-> "Allowed",
          temp_blocks |-> [temp_blocks EXCEPT ![ip] = NoEntry]]

\* a denial that renews the temporary block it found
IPFilter_is_allowed_renewing(ip) ==
    IF ip \in whitelist
    THEN [allowed |-> TRUE, reason |-> "Whitelisted", temp_blocks |-> temp_blocks]
    ELSE IF ip \in blacklist
    THEN [allowed |-> FALSE, reason |-> "IP is blacklisted",
          temp_blocks |-> temp_blocks]
    ELSE IF temp_blocks[ip] # NoEntry /\ now < temp_blocks[ip]
    THEN [allowed |-> FALSE, reason |-> "IP temporarily blocked",
          temp_blocks |-> [temp_blocks EXCEPT ![ip] = temp_blocks[ip] + 1]]
    ELSE [allowed |-> TRUE, reason |-> "Allowed",
          temp_blocks |-> [temp_blocks EXCEPT ![ip] = NoEntry]]

IPFilter_is_allowed(ip) ==
    IF ip \in whitelist
    THEN [allowed |-> TRUE, reason |-> "Whitelisted", temp_blocks |-> temp_blocks]
    ELSE IF ip \in blacklist
    THEN [allowed |-> FALSE, reason |-> "IP is blacklisted",
          temp_blocks |-> temp_blocks]
    ELSE IF temp_blocks[ip] # NoEntry /\ now < temp_blocks[ip]
    THEN [allowed |-> FALSE, reason |-> "IP temporarily blocked",
          temp_blocks |-> temp_blocks]
    ELSE \* no key, or an expired block that the lookup deletes
         [allowed |-> TRUE, reason |-> "Allowed",
          temp_blocks |-> [temp_blocks EXCEPT ![ip] = NoEntry]]

IPFilter_add_to_whitelist(ip) ==
    [whitelist |-> whitelist \cup {ip},
     blacklist |-> blacklist \ {ip},
     temp_blocks |-> [temp_blocks EXCEPT ![ip] = NoEntry]]

IPFilter_remove_from_whitelist(ip) == whitelist \ {ip}

IPFilter_add_to_blacklist(ip) ==
    [whitelist |-> whitelist \ {ip},
     blacklist |-> blacklist \cup {ip},
     temp_blocks |-> [temp_blocks EXCEPT ![ip] = NoEntry]]

IPFilter_remove_from_blacklist(ip) == blacklist \ {ip}

\* block_temporarily that writes the expiry to every address
\* a temp block set whatever lists the address is in
IPFilter_block_temporarily_unguarded(ip, duration) ==
    [temp_blocks EXCEPT ![ip] = now + duration]

IPFilter_block_temporarily_all(ip, duration) ==
    IF ip \notin whitelist /\ ip \notin blacklist
    THEN [a \in Addr |-> now + duration]
    ELSE temp_blocks

\* block_temporarily that records nothing
IPFilter_block_temporarily_dropped(ip, duration) == temp_blocks

IPFilter_block_temporarily(ip, duration) ==
    IF ip \notin whitelist /\ ip \notin blacklist
    THEN [temp_blocks EXCEPT ![ip] = now + duration]
    ELSE temp_blocks

\* an unblock that drops every address's temp block
IPFilter_unblock_all(ip) == [a \in Addr |-> NoEntry]

IPFilter_unblock(ip) == [temp_blocks EXCEPT ![ip] = NoEntry]

\* the blacklist looked up for the whitelist
IPFilter_is_whitelisted_wrong_list(ip) == ip \in blacklist

IPFilter_is_whitelisted(ip) == ip \in whitelist

IPFilter_reset == [a \in Addr |-> NoEntry]

\* get_stats deletes the expired temporary blocks before it reports
IPFilter_get_stats ==
    [a \in Addr |->
        IF temp_blocks[a] # NoEntry /\ now >= temp_blocks[a]
        THEN NoEntry ELSE temp_blocks[a]]

\* --------------------------------------------------------- RateLimiter
\* is_allowed as a slip of the pen would have it: the limit check lets
\* slack more requests through, the block lasts block_for, the admitted
\* request is appended only if record, and a block holds grace longer
RateLimiter_is_allowed_variant(ip, slack, block_for, record, grace) ==
    IF blocked_ips[ip] # NoEntry /\ now < blocked_ips[ip] + grace
    THEN [allowed |-> FALSE, reason |-> "IP blocked",
          requests |-> requests, blocked_ips |-> blocked_ips]
    ELSE LET unblocked == [blocked_ips EXCEPT ![ip] = NoEntry]
             window == Prune(requests[ip], now, cfg.time_window)
         IN  IF Len(window) >= cfg.max_requests + slack
             THEN [allowed |-> FALSE, reason |-> "Rate limit exceeded",
                   requests |-> [requests EXCEPT ![ip] = window],
                   blocked_ips |-> [unblocked EXCEPT ![ip] = now + block_for]]
             ELSE [allowed |-> TRUE, reason |-> "None",
                   requests |-> [requests EXCEPT ![ip] =
                                   IF record THEN Append(window, now) ELSE window],
                   blocked_ips |-> unblocked]

\* "len > max_requests" for "len >= max_requests"
RateLimiter_is_allowed_off_by_one(ip) ==
    RateLimiter_is_allowed_variant(ip, 1, cfg.block_duration, TRUE, 0)

\* the block set for time_window instead of block_duration
RateLimiter_is_allowed_window_block(ip) ==
    RateLimiter_is_allowed_variant(ip, 0, cfg.time_window, TRUE, 0)

\* the admitted request not appended to the window
RateLimiter_is_allowed_no_append(ip) ==
    RateLimiter_is_allowed_variant(ip, 0, cfg.block_duration, FALSE, 0)

\* "current_time <= expiry" for "current_time < expiry"
RateLimiter_is_allowed_late_expiry(ip) ==
    RateLimiter_is_allowed_variant(ip, 0, cfg.block_duration, TRUE, 1)

\* the request that trips the limit recorded in the window all the same
RateLimiter_is_allowed_record_denied(ip) ==
    IF blocked_ips[ip] # NoEntry /\ now < blocked_ips[ip]
    THEN [allowed |-> FALSE, reason |-> "IP blocked",
          requests |-> requests, blocked_ips |-> blocked_ips]
    ELSE LET unblocked == [blocked_ips EXCEPT ![ip] = NoEntry]
             window == Append(Prune(requests[ip], now, cfg.time_window), now)
         IN  IF Len(window) > cfg.max_requests
             THEN [allowed |-> FALSE, reason |-> "Rate limit exceeded",
                   requests |-> [requests EXCEPT ![ip] = window],
                   blocked_ips |->
                       [unblocked EXCEPT ![ip] = now + cfg.block_duration]]
             ELSE [allowed |-> TRUE, reason |-> "None",
                   requests |-> [requests EXCEPT ![ip] = window],
                   blocked_ips |-> unblocked]

RateLimiter_is_allowed(ip) ==
    IF blocked_ips[ip] # NoEntry /\ now < blocked_ips[ip]
    THEN [allowed |-> FALSE, reason |-> "IP blocked",
          requests |-> requests, blocked_ips |-> blocked_ips]
    ELSE LET unblocked == [blocked_ips EXCEPT ![ip] = NoEntry]
             window == Prune(requests[ip], now, cfg.time_window)
         IN  IF Len(window) >= cfg.max_requests
             THEN [allowed |-> FALSE, reason |-> "Rate limit exceeded",
                   requests |-> [requests EXCEPT ![ip] = window],
                   blocked_ips |->
                       [unblocked EXCEPT ![ip] = now + cfg.block_duration]]
             ELSE [allowed |-> TRUE, reason |-> "None",
                   requests |-> [requests EXCEPT ![ip] = Append(window, now)],
                   blocked_ips |-> unblocked]

\* the stored window counted as it is, stale timestamps included
RateLimiter_get_request_count_unpruned(ip) ==
    [count |-> Len(requests[ip]), requests |-> requests]

RateLimiter_get_request_count(ip) ==
    LET window == Prune(requests[ip], now, cfg.time_window)
    IN  [count |-> Len(window), requests |-> [requests EXCEPT ![ip] = window]]

\* a block that is_blocked takes as over one second early
RateLimiter_is_blocked_early(ip) ==
    IF blocked_ips[ip] # NoEntry /\ now + 1 < blocked_ips[ip]
    THEN [blocked |-> TRUE, blocked_ips |-> blocked_ips]
    ELSE [blocked |-> FALSE, blocked_ips |-> [blocked_ips EXCEPT ![ip] = NoEntry]]

RateLimiter_is_blocked(ip) ==
    IF blocked_ips[ip] # NoEntry /\ now < blocked_ips[ip]
    THEN [blocked |-> TRUE, blocked_ips |-> blocked_ips]
    ELSE [blocked |-> FALSE, blocked_ips |-> [blocked_ips EXCEPT ![ip] = NoEntry]]

\* duration is NoEntry for None; "duration if duration else block_duration"
\* takes the default for None and for 0
RateLimiter_block_ip(ip, duration) ==
    LET block_time == IF duration # NoEntry /\ duration # 0
                      THEN duration ELSE cfg.block_duration
    IN  [blocked_ips EXCEPT ![ip] = now + block_time]

RateLimiter_unblock_ip(ip) == [blocked_ips EXCEPT ![ip] = NoEntry]

RateLimiter_reset ==
    [requests |-> [a \in Addr |-> << >>], blocked_ips |-> [a \in Addr |-> NoEntry]]

\* ------------------------------------------------------ TrafficMonitor
\* len / detection_window > factor * suspicious_threshold
RateOver(len, factor) ==
    len * cfg.thr_den > factor * cfg.thr_num * cfg.detection_window

\* the top band with an inclusive lower bound
TrafficMonitor_calculate_severity_inclusive(len) ==
    IF len * cfg.thr_den >= CriticalFactor * cfg.thr_num * cfg.detection_window
    THEN "CRITICAL"
    ELSE IF RateOver(len, HighFactor) THEN "HIGH"
    ELSE IF RateOver(len, MediumFactor) THEN "MEDIUM"
    ELSE "LOW"

TrafficMonitor_calculate_severity(len) ==
    IF RateOver(len, CriticalFactor) THEN "CRITICAL"
    ELSE IF RateOver(len, HighFactor) THEN "HIGH"
    ELSE IF RateOver(len, MediumFactor) THEN "MEDIUM"
    ELSE "LOW"

\* a full log that turns the new alert away instead of evicting the oldest
TrafficMonitor_trigger_alert_keep_oldest(log, ip, len, violation_count) ==
    LET alert == [timestamp |-> now, ip |-> ip, len |-> len,
                  violation_count |-> violation_count,
                  severity |-> "LOW"]
    IN  IF Len(log) >= AlertCapacity THEN log ELSE Append(log, alert)

\* the alert log after _trigger_alert appended one alert; the alert carries
\* the window length its request_rate was computed from
TrafficMonitor_trigger_alert(log, ip, len, violation_count) ==
    LET alert == [timestamp |-> now, ip |-> ip, len |-> len,
                  violation_count |-> violation_count,
                  severity |-> TrafficMonitor_calculate_severity(len)]
        appended == Append(log, alert)
    IN  IF Len(appended) > AlertCapacity THEN Tail(appended) ELSE appended

\* the violation count started afresh once an alert has fired
TrafficMonitor_record_request_rearmed(ip) ==
    LET window == Append(Prune(ip_requests[ip], now, cfg.detection_window), now)
        over == RateOver(Len(window), 1)
        count == IF over THEN ip_violations[ip] + 1 ELSE ip_violations[ip]
        fires == over /\ count >= cfg.alert_threshold
    IN  [ip_requests |-> [ip_requests EXCEPT ![ip] = window],
         ip_violations |-> [ip_violations EXCEPT ![ip] = IF fires THEN 0 ELSE count],
         alerts |-> IF fires
                    THEN TrafficMonitor_trigger_alert(alerts, ip, Len(window), count)
                    ELSE alerts]

\* an alert only once the count has passed alert_threshold
TrafficMonitor_record_request_late_alert(ip) ==
    LET window == Append(Prune(ip_requests[ip], now, cfg.detection_window), now)
        over == RateOver(Len(window), 1)
        count == IF over THEN ip_violations[ip] + 1 ELSE ip_violations[ip]
    IN  [ip_requests |-> [ip_requests EXCEPT ![ip] = window],
         ip_violations |-> [ip_violations EXCEPT ![ip] = count],
         alerts |-> IF over /\ count > cfg.alert_threshold
                    THEN TrafficMonitor_trigger_alert(alerts, ip, Len(window), count)
                    ELSE alerts]

TrafficMonitor_record_request(ip) ==
    LET window == Append(Prune(ip_requests[ip], now, cfg.detection_window), now)
        over == RateOver(Len(window), 1)
        count == IF over THEN ip_violations[ip] + 1 ELSE ip_violations[ip]
    IN  [ip_requests |-> [ip_requests EXCEPT ![ip] = window],
         ip_violations |-> [ip_violations EXCEPT ![ip] = count],
         alerts |-> IF over /\ count >= cfg.alert_threshold
                    THEN TrafficMonitor_trigger_alert(alerts, ip, Len(window), count)
                    ELSE alerts]

\* a rate at the threshold taken for suspicious
TrafficMonitor_is_suspicious_inclusive(ip) ==
    LET window == Prune(ip_requests[ip], now, cfg.detection_window)
        pruned == [ip_requests EXCEPT ![ip] = window]
    IN  IF window # << >> /\ RateOver(Len(window) + 1, 1)
        THEN [suspicious |-> TRUE, ip_requests |-> pruned,
              violations |-> ip_violations[ip],
              severity |-> TrafficMonitor_calculate_severity(Len(window))]
        ELSE [suspicious |-> FALSE, ip_requests |-> pruned,
              violations |-> ip_violations[ip], severity |-> "None"]

TrafficMonitor_is_suspicious(ip) ==
    LET window == Prune(ip_requests[ip], now, cfg.detection_window)
        pruned == [ip_requests EXCEPT ![ip] = window]
    IN  IF window # << >> /\ RateOver(Len(window), 1)
        THEN [suspicious |-> TRUE, ip_requests |-> pruned,
              violations |-> ip_violations[ip],
              severity |-> TrafficMonitor_calculate_severity(Len(window))]
        ELSE [suspicious |-> FALSE, ip_requests |-> pruned,
              violations |-> ip_violations[ip], severity |-> "None"]

\* the slice log[-limit:]: a negative start counts from the end and stops at
\* the front, a start of zero or more counts from the front, and -0 is 0
TrafficMonitor_get_recent_alerts(log, limit) ==
    LET start == IF 0 - limit < 0
                 THEN (IF Len(log) - limit < 0 THEN 0 ELSE Len(log) - limit)
                 ELSE Min(0 - limit, Len(log))
    IN  SubSeq(log, start + 1, Len(log))

TrafficMonitor_reset_violations(ip) == [ip_violations EXCEPT ![ip] = 0]

TrafficMonitor_reset ==
    [ip_requests |-> [a \in Addr |-> << >>],
     ip_violations |-> [a \in Addr |-> 0],
     alerts |-> << >>]

\* ------------------------------------------------- DDoSMitigationSystem
Idle == [pc |-> "idle", ip |-> NoIp]

\* what a step reports: the method, the address, whether the
\* method returned with this step, its verdict, details['blocked_by'] or
\* details['allowed_by'] ("" when the key is absent), details['suspicious'],
\* the outcome of the RateLimiter call the step made ("" when it made none)
\* and the arguments of block_ip; reason is the reason a leaf's is_allowed
\* gave ("" when the step reports none); severity is the severity the monitor
\* computed ("None" when it computed none), arg the numeric argument of a
\* query and out the sequence the query returned
Ret(op, ip, done, allowed, by, rl) ==
    [op |-> op, ip |-> ip, done |-> done, allowed |-> allowed,
     by |-> by, suspicious |-> FALSE, severity |-> "None", rl |-> rl,
     duration |-> NoEntry, permanent |-> FALSE, arg |-> NoEntry,
     out |-> << >>, reason |-> ""]

\* "duration or self.rate_limiter.block_duration"
Coordinator_block_time(duration) ==
    IF duration # NoEntry /\ duration # 0 THEN duration ELSE cfg.block_duration

\* record_request leaves the monitor's state within the model's bounds
RecordBounded(ip) ==
    LET r == TrafficMonitor_record_request(ip)
    IN  /\ Len(r.ip_requests[ip]) <= MaxMonWindow
        /\ r.ip_violations[ip] <= MaxViolations
        /\ Len(r.alerts) <= MaxAlerts

\* process_request, step 1: ip_filter.is_allowed
PR_Filter(t, ip) ==
    /\ thr[t].pc = "idle"
    /\ Free("ip_filter")
    /\ LET r == IPFilter_is_allowed(ip)
       IN  /\ temp_blocks' = r.temp_blocks
           /\ IF r.allowed
              THEN /\ thr' = [thr EXCEPT ![t] = [pc |-> "is_whitelisted", ip |-> ip]]
                   /\ last' = Ret("process_request", ip, FALSE, FALSE, "", "")
              ELSE /\ thr' = thr
                   /\ last' = Ret("process_request", ip, TRUE, FALSE, "ip_filter", "")
    /\ UNCHANGED <<now, cfg, lock, whitelist, blacklist, rl_vars, mon_vars>>

\* process_request: ip_filter.is_whitelisted
PR_IsWhitelisted(t) ==
    /\ thr[t].pc = "is_whitelisted"
    /\ Free("ip_filter")
    /\ thr' = [thr EXCEPT ![t].pc =
                  IF IPFilter_is_whitelisted(thr[t].ip)
                  THEN "whitelist_record" ELSE "rate_limiter"]
    /\ last' = Ret("process_request", thr[t].ip, FALSE, FALSE, "", "")
    /\ UNCHANGED <<now, cfg, lock, ipf_vars, rl_vars, mon_vars>>

\* process_request, whitelisted: traffic_monitor.record_request and return
PR_WhitelistRecord(t) ==
    /\ thr[t].pc = "whitelist_record"
    /\ Free("traffic_monitor")
    /\ LET r == TrafficMonitor_record_request(thr[t].ip)
       IN  /\ ip_requests' = r.ip_requests
           /\ ip_violations' = r.ip_violations
           /\ alerts' = r.alerts
    /\ thr' = [thr EXCEPT ![t] = Idle]
    /\ last' = Ret("process_request", thr[t].ip, TRUE, TRUE, "whitelist", "")
    /\ UNCHANGED <<now, cfg, lock, ipf_vars, rl_vars>>

\* process_request: rate_limiter.is_allowed
PR_RateLimit(t) ==
    /\ thr[t].pc = "rate_limiter"
    /\ Free("rate_limiter")
    /\ LET ip == thr[t].ip
           r == RateLimiter_is_allowed(ip)
       IN  /\ requests' = r.requests
           /\ blocked_ips' = r.blocked_ips
           /\ IF r.allowed
              THEN /\ thr' = [thr EXCEPT ![t].pc = "record"]
                   /\ last' = Ret("process_request", ip, FALSE, FALSE, "", r.reason)
              ELSE IF AutoBlock
              THEN /\ thr' = [thr EXCEPT ![t].pc = "escalate_rate"]
                   /\ last' = Ret("process_request", ip, FALSE, FALSE,
                                  "rate_limiter", r.reason)
              ELSE /\ thr' = [thr EXCEPT ![t] = Idle]
                   /\ last' = Ret("process_request", ip, TRUE, FALSE,
                                  "rate_limiter", r.reason)
    /\ UNCHANGED <<now, cfg, lock, ipf_vars, mon_vars>>

\* process_request, rate limited: ip_filter.block_temporarily and return
PR_EscalateRate(t) ==
    /\ thr[t].pc = "escalate_rate"
    /\ Free("ip_filter")
    /\ temp_blocks' = IPFilter_block_temporarily(thr[t].ip, cfg.block_duration)
    /\ thr' = [thr EXCEPT ![t] = Idle]
    /\ last' = Ret("process_request", thr[t].ip, TRUE, FALSE, "rate_limiter", "")
    /\ UNCHANGED <<now, cfg, lock, whitelist, blacklist, rl_vars, mon_vars>>

\* process_request: traffic_monitor.record_request
PR_Record(t) ==
    /\ thr[t].pc = "record"
    /\ Free("traffic_monitor")
    /\ LET r == TrafficMonitor_record_request(thr[t].ip)
       IN  /\ ip_requests' = r.ip_requests
           /\ ip_violations' = r.ip_violations
           /\ alerts' = r.alerts
    /\ thr' = [thr EXCEPT ![t].pc = "is_suspicious"]
    /\ last' = Ret("process_request", thr[t].ip, FALSE, FALSE, "", "")
    /\ UNCHANGED <<now, cfg, lock, ipf_vars, rl_vars>>

\* process_request: traffic_monitor.is_suspicious
PR_Suspicious(t) ==
    /\ thr[t].pc = "is_suspicious"
    /\ Free("traffic_monitor")
    /\ LET ip == thr[t].ip
           r == TrafficMonitor_is_suspicious(ip)
       IN  /\ ip_requests' = r.ip_requests
           /\ IF r.suspicious /\ AutoBlock /\ r.severity \in {"HIGH", "CRITICAL"}
              THEN /\ thr' = [thr EXCEPT ![t].pc = "escalate_suspicious"]
                   /\ last' = [Ret("process_request", ip, FALSE, FALSE, "", "")
                                  EXCEPT !.suspicious = TRUE,
                                         !.severity = r.severity]
              ELSE /\ thr' = [thr EXCEPT ![t] = Idle]
                   /\ last' = [Ret("process_request", ip, TRUE, TRUE,
                                   "all_checks_passed", "")
                                  EXCEPT !.suspicious = r.suspicious,
                                         !.severity = r.severity]
    /\ UNCHANGED <<now, cfg, lock, ipf_vars, rl_vars, ip_violations, alerts>>

\* process_request, suspicious: ip_filter.block_temporarily(ip, 600) and return
PR_EscalateSuspicious(t) ==
    /\ thr[t].pc = "escalate_suspicious"
    /\ Free("ip_filter")
    /\ temp_blocks' = IPFilter_block_temporarily(thr[t].ip, AnomalyBlockDuration)
    /\ thr' = [thr EXCEPT ![t] = Idle]
    /\ last' = [Ret("process_request", thr[t].ip, TRUE, FALSE, "", "")
                   EXCEPT !.suspicious = TRUE]
    /\ UNCHANGED <<now, cfg, lock, whitelist, blacklist, rl_vars, mon_vars>>

\* block_ip(ip, duration, permanent): duration is NoEntry for None
BlockIp(t, ip, duration, permanent) ==
    /\ thr[t].pc = "idle"
    /\ Free("ip_filter")
    /\ IF permanent
       THEN LET r == IPFilter_add_to_blacklist(ip)
            IN  /\ whitelist' = r.whitelist
                /\ blacklist' = r.blacklist
                /\ temp_blocks' = r.temp_blocks
       ELSE /\ temp_blocks' =
                   IPFilter_block_temporarily(ip, Coordinator_block_time(duration))
            /\ UNCHANGED <<whitelist, blacklist>>
    /\ last' = [Ret("block_ip", ip, TRUE, FALSE, "", "")
                   EXCEPT !.duration = duration, !.permanent = permanent]
    /\ UNCHANGED <<now, cfg, lock, rl_vars, mon_vars, thr>>

\* unblock_ip: ip_filter.unblock
UnblockIp_Filter(t, ip) ==
    /\ thr[t].pc = "idle"
    /\ Free("ip_filter")
    /\ temp_blocks' = IPFilter_unblock(ip)
    /\ thr' = [thr EXCEPT ![t] = [pc |-> "unblock_rl", ip |-> ip]]
    /\ last' = Ret("unblock_ip", ip, FALSE, FALSE, "", "")
    /\ UNCHANGED <<now, cfg, lock, whitelist, blacklist, rl_vars, mon_vars>>

\* unblock_ip: rate_limiter.unblock_ip
UnblockIp_Limiter(t) ==
    /\ thr[t].pc = "unblock_rl"
    /\ Free("rate_limiter")
    /\ blocked_ips' = RateLimiter_unblock_ip(thr[t].ip)
    /\ thr' = [thr EXCEPT ![t].pc = "unblock_mon"]
    /\ last' = Ret("unblock_ip", thr[t].ip, FALSE, FALSE, "", "")
    /\ UNCHANGED <<now, cfg, lock, ipf_vars, requests, mon_vars>>

\* unblock_ip: traffic_monitor.reset_violations and return
UnblockIp_Monitor(t) ==
    /\ thr[t].pc = "unblock_mon"
    /\ Free("traffic_monitor")
    /\ ip_violations' = TrafficMonitor_reset_violations(thr[t].ip)
    /\ thr' = [thr EXCEPT ![t] = Idle]
    /\ last' = Ret("unblock_ip", thr[t].ip, TRUE, FALSE, "", "")
    /\ UNCHANGED <<now, cfg, lock, ipf_vars, rl_vars, ip_requests, alerts>>

\* whitelist_ip
WhitelistIp(t, ip) ==
    /\ thr[t].pc = "idle"
    /\ Free("ip_filter")
    /\ LET r == IPFilter_add_to_whitelist(ip)
       IN  /\ whitelist' = r.whitelist
           /\ blacklist' = r.blacklist
           /\ temp_blocks' = r.temp_blocks
    /\ last' = Ret("whitelist_ip", ip, TRUE, FALSE, "", "")
    /\ UNCHANGED <<now, cfg, lock, rl_vars, mon_vars, thr>>

\* reset_all: rate_limiter.reset
ResetAll_Limiter(t) ==
    /\ thr[t].pc = "idle"
    /\ Free("rate_limiter")
    /\ requests' = RateLimiter_reset.requests
    /\ blocked_ips' = RateLimiter_reset.blocked_ips
    /\ thr' = [thr EXCEPT ![t] = [pc |-> "reset_mon", ip |-> NoIp]]
    /\ last' = Ret("reset_all", NoIp, FALSE, FALSE, "", "reset")
    /\ UNCHANGED <<now, cfg, lock, ipf_vars, mon_vars>>

\* reset_all: traffic_monitor.reset
ResetAll_Monitor(t) ==
    /\ thr[t].pc = "reset_mon"
    /\ Free("traffic_monitor")
    /\ ip_requests' = TrafficMonitor_reset.ip_requests
    /\ ip_violations' = TrafficMonitor_reset.ip_violations
    /\ alerts' = TrafficMonitor_reset.alerts
    /\ thr' = [thr EXCEPT ![t].pc = "reset_ipf"]
    /\ last' = Ret("reset_all", NoIp, FALSE, FALSE, "", "")
    /\ UNCHANGED <<now, cfg, lock, ipf_vars, rl_vars>>

\* reset_all: ip_filter.reset and return
ResetAll_Filter(t) ==
    /\ thr[t].pc = "reset_ipf"
    /\ Free("ip_filter")
    /\ temp_blocks' = IPFilter_reset
    /\ thr' = [thr EXCEPT ![t] = Idle]
    /\ last' = Ret("reset_all", NoIp, TRUE, FALSE, "", "")
    /\ UNCHANGED <<now, cfg, lock, whitelist, blacklist, rl_vars, mon_vars>>

\* ip_filter.remove_from_blacklist, called on the leaf
RemoveFromBlacklist(t, ip) ==
    /\ thr[t].pc = "idle"
    /\ Free("ip_filter")
    /\ blacklist' = IPFilter_remove_from_blacklist(ip)
    /\ last' = Ret("remove_from_blacklist", ip, TRUE, FALSE, "", "")
    /\ UNCHANGED <<now, cfg, lock, whitelist, temp_blocks, rl_vars, mon_vars, thr>>

\* ip_filter.remove_from_whitelist, called on the leaf
RemoveFromWhitelist(t, ip) ==
    /\ thr[t].pc = "idle"
    /\ Free("ip_filter")
    /\ whitelist' = IPFilter_remove_from_whitelist(ip)
    /\ last' = Ret("remove_from_whitelist", ip, TRUE, FALSE, "", "")
    /\ UNCHANGED <<now, cfg, lock, blacklist, temp_blocks, rl_vars, mon_vars, thr>>

\* get_stats: rate_limiter.get_stats, which changes nothing
GetStats_Limiter(t) ==
    /\ thr[t].pc = "idle"
    /\ Free("rate_limiter")
    /\ thr' = [thr EXCEPT ![t] = [pc |-> "stats_monitor", ip |-> NoIp]]
    /\ last' = Ret("get_stats", NoIp, FALSE, FALSE, "", "")
    /\ UNCHANGED <<now, cfg, lock, ipf_vars, rl_vars, mon_vars>>

\* a get_stats that enters the monitor's lock without waiting for it and
\* goes on to ip_filter.get_stats while still inside it
GetStats_Monitor_holding(t) ==
    /\ thr[t].pc = "stats_monitor"
    /\ lock' = [lock EXCEPT !["traffic_monitor"] = t]
    /\ thr' = [thr EXCEPT ![t].pc = "stats_filter"]
    /\ last' = Ret("get_stats", NoIp, FALSE, FALSE, "", "")
    /\ UNCHANGED <<now, cfg, ipf_vars, rl_vars, mon_vars>>

\* get_stats: traffic_monitor.get_stats enters "with self.lock", sums up the
\* windows and goes on, inside the lock, to call self.get_recent_alerts(5)
GetStats_Monitor(t) ==
    /\ thr[t].pc = "stats_monitor"
    /\ Free("traffic_monitor")
    /\ lock' = [lock EXCEPT !["traffic_monitor"] = t]
    /\ thr' = [thr EXCEPT ![t].pc = "stats_recent"]
    /\ last' = Ret("get_stats", NoIp, FALSE, FALSE, "", "")
    /\ UNCHANGED <<now, cfg, ipf_vars, rl_vars, mon_vars>>

\* traffic_monitor.get_recent_alerts(limit), called through the coordinator's
\* get_recent_alerts by an idle thread, or with limit 5 from inside
\* traffic_monitor.get_stats, which then returns, leaving its own
\* "with self.lock"
GetRecentAlerts(t, limit) ==
    /\ \/ thr[t].pc = "idle"
       \/ thr[t].pc = "stats_recent" /\ limit = StatsAlertLimit
    /\ Free("traffic_monitor")
    /\ IF thr[t].pc = "idle"
       THEN /\ last' = [Ret("get_recent_alerts", NoIp, TRUE, FALSE, "", "")
                          EXCEPT !.out = TrafficMonitor_get_recent_alerts(alerts, limit),
                                 !.arg = limit]
            /\ UNCHANGED <<thr, lock>>
       ELSE /\ last' = Ret("get_stats", NoIp, FALSE, FALSE, "", "")
            /\ thr' = [thr EXCEPT ![t].pc = "stats_filter"]
            /\ lock' = [lock EXCEPT !["traffic_monitor"] = NoThread]
    /\ UNCHANGED <<now, cfg, ipf_vars, rl_vars, mon_vars>>

\* ip_filter.get_stats, called on the leaf by an idle thread or as the last
\* call of the coordinator's get_stats
GetStats_Filter(t) ==
    /\ thr[t].pc \in {"idle", "stats_filter"}
    /\ Free("ip_filter")
    /\ temp_blocks' = IPFilter_get_stats
    /\ thr' = [thr EXCEPT ![t] = Idle]
    /\ last' = Ret("get_stats", NoIp, TRUE, FALSE, "", "")
    /\ UNCHANGED <<now, cfg, lock, whitelist, blacklist, rl_vars, mon_vars>>

\* time passes, up to a limit
TickTo(limit) ==
    /\ now < limit
    /\ now' = now + 1
    /\ last' = Ret("tick", NoIp, TRUE, FALSE, "", "")
    /\ UNCHANGED <<cfg, lock, ipf_vars, rl_vars, mon_vars, thr>>

Tick == TickTo(MaxTime)

\* ------------------------------------------------ observation history
\* hist records what the properties below need to remember about the past;
\* no action of the program reads it.
\* no is_suspicious call in the call in progress
NoReport == [asked |-> FALSE, suspicious |-> FALSE, severity |-> "None"]

HistInit ==
    [wl |-> [t \in Threads |-> FALSE],
     admitted |-> [a \in Addr |-> << >>],
     seq |-> [a \in Addr |-> "none"],
     calls |-> [a \in Addr |-> 0],
     first |-> [a \in Addr |-> NoEntry],
     auto |-> [a \in Addr |-> NoEntry],
     due |-> [a \in Addr |-> FALSE],
     completed |-> 0,
     first_deny |-> NoEntry,
     raised |-> << >>,
     pre |-> << >>,
     report |-> NoReport,
     since_reset |-> FALSE,
     answered |-> FALSE,
     manual |-> [a \in Addr |-> NoEntry],
     unblocked |-> [a \in Addr |-> FALSE],
     paired |-> NoIp,
     restored |-> FALSE,
     wlever |-> {},
     lastreq |-> NoEntry,
     quiet |-> FALSE]

\* wl[t]: the address of the call thread t is running has been whitelisted
\* in every state since the call began
ObservedWl ==
    [t \in Threads |->
        IF thr'[t].pc = "idle" THEN FALSE
        ELSE IF thr[t].pc = "idle" THEN thr'[t].ip \in whitelist'
        ELSE hist.wl[t] /\ thr'[t].ip \in whitelist']

\* admitted[a]: the timestamps of the calls RateLimiter.is_allowed admitted
\* for a since the last RateLimiter.reset
ObservedAdmitted ==
    [a \in Addr |->
        IF last'.rl = "reset" THEN << >>
        ELSE IF last'.rl = "None" /\ last'.ip = a
        THEN Append(hist.admitted[a], now)
        ELSE hist.admitted[a]]

\* seq[a]: how far the sequence "temporary block_ip(a) that took effect,
\* unblock_ip(a), process_request(a)" has got, with nothing else done to a
ObservedSeq ==
    [a \in Addr |->
        CASE last'.op = "tick" -> hist.seq[a]
          [] last'.op = "block_ip" /\ last'.ip = a ->
                IF ~last'.permanent /\ a \notin whitelist /\ a \notin blacklist
                THEN "blocked" ELSE "none"
          [] last'.op = "unblock_ip" /\ last'.ip = a ->
                IF hist.seq[a] \in {"blocked", "unblocking"}
                THEN (IF last'.done THEN "unblocked" ELSE "unblocking")
                ELSE "none"
          [] last'.op = "process_request" /\ last'.ip = a ->
                IF hist.seq[a] \in {"unblocked", "requesting"} /\ ~last'.done
                THEN "requesting" ELSE "none"
          [] last'.op # "tick" /\ (last'.ip = a \/ last'.op = "reset_all") -> "none"
          [] OTHER -> hist.seq[a]]

\* what the concurrent specification remembers
ObserveSys == hist' = [hist EXCEPT !.wl = ObservedWl, !.admitted = ObservedAdmitted]

\* what the one-caller specification remembers
ObserveSeq == hist' = [hist EXCEPT !.seq = ObservedSeq]

\* ------------------------------------------------------ specifications
\* the configurations of the coordinator specifications: a monitor that
\* rates two requests of one second HIGH (threshold 1/4 request per second)
\* under a limiter whose block is shorter than its window, and the default
\* monitor under a limiter of one request per second without auto-block
ConfigsSys ==
    { [max_requests |-> 2, time_window |-> 2, block_duration |-> 1,
       thr_num |-> 1, thr_den |-> 4, detection_window |-> 1,
       alert_threshold |-> 2, auto_block |-> TRUE],
      [max_requests |-> 1, time_window |-> 1, block_duration |-> 2,
       thr_num |-> DefaultSuspiciousThreshold, thr_den |-> 1,
       detection_window |-> DefaultDetectionWindow,
       alert_threshold |-> DefaultAlertThreshold, auto_block |-> FALSE] }

\* the configured ip_blocking.whitelist and ip_blocking.blacklist: the
\* constructor copies both lists as they are, an address on both included
InitLists == { <<{}, {}>>, <<{"a1"}, {"a1"}>> }

\* the duration argument of block_ip: None, 0 and one second
Durations == {NoEntry, 0, 1}

InitWith(configs, initlists) ==
    /\ now = 0
    /\ cfg \in configs
    /\ lock = [l \in Leaves |-> NoThread]
    /\ \E lists \in initlists : whitelist = lists[1] /\ blacklist = lists[2]
    /\ temp_blocks = [a \in Addr |-> NoEntry]
    /\ requests = [a \in Addr |-> << >>]
    /\ blocked_ips = [a \in Addr |-> NoEntry]
    /\ ip_requests = [a \in Addr |-> << >>]
    /\ ip_violations = [a \in Addr |-> 0]
    /\ alerts = << >>
    /\ thr = [t \in Threads |-> Idle]
    /\ last = Ret("init", NoIp, TRUE, FALSE, "", "")
    /\ hist = HistInit

Init == InitWith(ConfigsSys, InitLists)

\* the concurrent specification starts with both lists empty, auto-block
\* on, a limiter of two requests per second that blocks for one second, and
\* the monitor of the first configuration except that it alerts from the
\* fourth violation on
ConfigsConc ==
    { [max_requests |-> 2, time_window |-> 1, block_duration |-> 1,
       thr_num |-> 1, thr_den |-> 4, detection_window |-> 1,
       alert_threshold |-> 4, auto_block |-> TRUE] }

InitConc == InitWith(ConfigsConc, { <<{}, {}>> })

\* the steps of process_request, by the threads T for the addresses A
Requests(T, A, Observe) ==
    \E t \in T :
        \/ \E ip \in A : (PR_Filter(t, ip) /\ Observe)
        \/ (PR_IsWhitelisted(t) /\ Observe)
        \/ (PR_WhitelistRecord(t) /\ RecordBounded(thr[t].ip) /\ Observe)
        \/ (PR_RateLimit(t) /\ Observe)
        \/ (PR_EscalateRate(t) /\ Observe)
        \/ (PR_Record(t) /\ RecordBounded(thr[t].ip) /\ Observe)
        \/ (PR_Suspicious(t) /\ Observe)
        \/ (PR_EscalateSuspicious(t) /\ Observe)

\* the steps of the administrative calls, by the threads T for the addresses A
Admin(T, A, Observe) ==
    \E t \in T :
        \/ \E ip \in A, d \in Durations : (BlockIp(t, ip, d, FALSE) /\ Observe)
        \/ \E ip \in A : (BlockIp(t, ip, NoEntry, TRUE) /\ Observe)
        \/ \E ip \in A : (UnblockIp_Filter(t, ip) /\ Observe)
        \/ (UnblockIp_Limiter(t) /\ Observe)
        \/ (UnblockIp_Monitor(t) /\ Observe)
        \/ \E ip \in A : (WhitelistIp(t, ip) /\ Observe)
        \/ (ResetAll_Limiter(t) /\ Observe)
        \/ (ResetAll_Monitor(t) /\ Observe)
        \/ (ResetAll_Filter(t) /\ Observe)
        \/ \E ip \in A : (RemoveFromBlacklist(t, ip) /\ Observe)
        \/ \E ip \in A : (RemoveFromWhitelist(t, ip) /\ Observe)

\* one caller: each call runs to its return before the next begins.  Both
\* addresses send requests; the administrative calls are made for a1.
Next ==
    \/ (Tick /\ ObserveSeq)
    \/ Requests({"t1"}, Addr, ObserveSeq)
    \/ Admin({"t1"}, {"a1"}, ObserveSeq)

Spec == Init /\ [][Next]_vars

\* two callers and the address a1: any interleaving of the leaf calls of the
\* requests of both threads and of the administrative calls of t1
NextConc ==
    \/ (TickTo(MaxTimeConc) /\ ObserveSys)
    \/ Requests(Threads, {"a1"}, ObserveSys)
    \/ Admin({"t1"}, {"a1"}, ObserveSys)

SpecConc == InitConc /\ [][NextConc]_vars

\* ------------------------------------------- the RateLimiter on its own
\* The methods of the leaf, called directly; each runs under the leaf's
\* lock, so any interleaving of concurrent calls is a sequence of them.

RL_IsAllowed(ip) ==
    /\ Free("rate_limiter")
    /\ LET r == RateLimiter_is_allowed(ip)
       IN  /\ requests' = r.requests
           /\ blocked_ips' = r.blocked_ips
           /\ last' = Ret("rl.is_allowed", ip, TRUE, r.allowed, "", r.reason)
    /\ UNCHANGED <<now, cfg, lock, ipf_vars, mon_vars, thr>>

RL_GetRequestCount(ip) ==
    /\ Free("rate_limiter")
    /\ requests' = RateLimiter_get_request_count(ip).requests
    /\ last' = [Ret("rl.get_request_count", ip, TRUE, FALSE, "", "")
                   EXCEPT !.arg = RateLimiter_get_request_count(ip).count]
    /\ UNCHANGED <<now, cfg, lock, ipf_vars, blocked_ips, mon_vars, thr>>

RL_IsBlocked(ip) ==
    /\ Free("rate_limiter")
    /\ LET r == RateLimiter_is_blocked(ip)
       IN  /\ blocked_ips' = r.blocked_ips
           /\ last' = Ret("rl.is_blocked", ip, TRUE, r.blocked, "", "")
    /\ UNCHANGED <<now, cfg, lock, ipf_vars, requests, mon_vars, thr>>

RL_BlockIp(ip, duration) ==
    /\ Free("rate_limiter")
    /\ blocked_ips' = RateLimiter_block_ip(ip, duration)
    /\ last' = [Ret("rl.block_ip", ip, TRUE, FALSE, "", "")
                   EXCEPT !.duration = duration]
    /\ UNCHANGED <<now, cfg, lock, ipf_vars, requests, mon_vars, thr>>

RL_UnblockIp(ip) ==
    /\ Free("rate_limiter")
    /\ blocked_ips' = RateLimiter_unblock_ip(ip)
    /\ last' = Ret("rl.unblock_ip", ip, TRUE, FALSE, "", "")
    /\ UNCHANGED <<now, cfg, lock, ipf_vars, requests, mon_vars, thr>>

RL_Reset ==
    /\ Free("rate_limiter")
    /\ requests' = RateLimiter_reset.requests
    /\ blocked_ips' = RateLimiter_reset.blocked_ips
    /\ last' = Ret("rl.reset", NoIp, TRUE, FALSE, "", "reset")
    /\ UNCHANGED <<now, cfg, lock, ipf_vars, mon_vars, thr>>

\* calls[a]: the is_allowed calls made for a since a last had no state
\* (counted up to max_requests + 2; NoEntry once block_ip(a) gave a a state
\* that no is_allowed call made); first[a]: the time of the first of them
ObservedCalls ==
    [a \in Addr |->
        IF last'.op = "rl.reset" THEN 0
        ELSE IF last'.ip # a \/ hist.calls[a] = NoEntry THEN hist.calls[a]
        ELSE IF last'.op = "rl.block_ip" THEN NoEntry
        ELSE IF last'.op = "rl.is_allowed"
        THEN Min(hist.calls[a] + 1, cfg.max_requests + 2)
        ELSE hist.calls[a]]

ObservedFirst ==
    [a \in Addr |->
        IF last'.op = "rl.reset" THEN NoEntry
        ELSE IF last'.op = "rl.is_allowed" /\ last'.ip = a /\ hist.calls[a] = 0
        THEN now
        ELSE hist.first[a]]

\* auto[a]: the time of the latest block the limit check of is_allowed set
\* for a, while no call for a has been admitted and block_ip(a) has not been
\* called since
ObservedAuto ==
    [a \in Addr |->
        IF last'.op = "rl.reset" THEN NoEntry
        ELSE IF last'.ip # a THEN hist.auto[a]
        ELSE IF last'.rl = "Rate limit exceeded" THEN now
        ELSE IF last'.op = "rl.block_ip" \/ last'.rl = "None" THEN NoEntry
        ELSE hist.auto[a]]

\* due[a]: the latest is_allowed call for a came when block_duration
\* seconds or more had passed since the block of auto[a]
ObservedDue ==
    [a \in Addr |->
        IF last'.op = "rl.is_allowed" /\ last'.ip = a
        THEN hist.auto[a] # NoEntry /\ now >= hist.auto[a] + cfg.block_duration
        ELSE hist.due[a]]

ObserveRL ==
    hist' = [hist EXCEPT !.calls = ObservedCalls, !.first = ObservedFirst,
                         !.auto = ObservedAuto, !.due = ObservedDue,
                         !.admitted = ObservedAdmitted]

\* every positive max_requests, time_window and block_duration within the
\* bounds, with the default monitor
ConfigsRL ==
    { [DefaultConfig EXCEPT !.max_requests = m, !.time_window = w,
                            !.block_duration = b] :
        m \in 1 .. MaxM, w \in 1 .. MaxW, b \in 1 .. MaxB }

\* the address the leaf specification calls the limiter for
AddrRL == {"a1"}

InitRL == InitWith(ConfigsRL, { <<{}, {}>> })

NextRL ==
    \/ (TickTo(MaxTimeRL) /\ ObserveRL)
    \/ \E ip \in AddrRL : (RL_IsAllowed(ip) /\ ObserveRL)
    \/ \E ip \in AddrRL : (RL_GetRequestCount(ip) /\ ObserveRL)
    \/ \E ip \in AddrRL : (RL_IsBlocked(ip) /\ ObserveRL)
    \/ \E ip \in AddrRL, d \in Durations : (RL_BlockIp(ip, d) /\ ObserveRL)
    \/ \E ip \in AddrRL : (RL_UnblockIp(ip) /\ ObserveRL)
    \/ (RL_Reset /\ ObserveRL)

SpecRL == InitRL /\ [][NextRL]_vars

\* ------------------------------------------------ the end-to-end burst
\* One caller sends requests from the address a1, which is on no list,
\* under the default configuration.  Time stands still until the first
\* denial, so that the burst up to it falls on one instant; the requests
\* after it come at any later time.  The whitelisted path and the anomaly
\* escalation are no steps here: a1 is never whitelisted, and the monitor
\* sees at most max_requests requests per window, which the default
\* threshold does not rate suspicious.

\* completed: the process_request calls that have returned; first_deny: the
\* time of the first of them that was denied
ObserveBurst ==
    LET returned == last'.op = "process_request" /\ last'.done
    IN  hist' = [hist EXCEPT
                   !.completed = IF returned THEN hist.completed + 1
                                 ELSE hist.completed,
                   !.first_deny = IF hist.first_deny = NoEntry /\ returned
                                     /\ ~last'.allowed
                                  THEN now ELSE hist.first_deny]

InitBurst == InitWith({DefaultConfig}, { <<{}, {}>> })

NextBurst ==
    \/ (hist.first_deny # NoEntry /\ TickTo(MaxBurstTime) /\ ObserveBurst)
    \/ (hist.completed < MaxBurstCalls /\ PR_Filter("t1", "a1") /\ ObserveBurst)
    \/ (PR_IsWhitelisted("t1") /\ ObserveBurst)
    \/ (PR_RateLimit("t1") /\ ObserveBurst)
    \/ (PR_EscalateRate("t1") /\ ObserveBurst)
    \/ (PR_Record("t1") /\ ObserveBurst)
    \/ (PR_Suspicious("t1") /\ ObserveBurst)

SpecBurst == InitBurst /\ [][NextBurst]_vars

\* ------------------------------------------- two callers, two addresses
\* t1 sends the requests of a1 and t2 those of a2, their leaf calls
\* interleaved in any order; no administrative call is made.
ObserveNone == hist' = hist

NextPair ==
    \/ (Tick /\ ObserveNone)
    \/ Requests({"t1"}, {"a1"}, ObserveNone)
    \/ Requests({"t2"}, {"a2"}, ObserveNone)

SpecPair == Init /\ [][NextPair]_vars

\* ------------------------------------------------ statistics queries
\* Two callers send requests for a1 and ask for the statistics and the
\* recent alerts, their leaf calls interleaved in any order.
Limits == {0, 1, StatsAlertLimit}

NextStats ==
    \/ (TickTo(MaxTimeConc) /\ ObserveNone)
    \/ Requests(Threads, {"a1"}, ObserveNone)
    \/ \E t \in Threads : (GetStats_Limiter(t) /\ ObserveNone)
    \/ \E t \in Threads : (GetStats_Monitor(t) /\ ObserveNone)
    \/ \E t \in Threads, limit \in Limits : (GetRecentAlerts(t, limit) /\ ObserveNone)
    \/ \E t \in Threads : (GetStats_Filter(t) /\ ObserveNone)

SpecStats == InitConc /\ [][NextStats]_vars

\* ------------------------------------------------------ the leaf locks
\* Two callers run process_request for a1, unblock_ip(a1), get_stats and
\* reset_all, their leaf calls interleaved in any order.
NextLocks ==
    \/ (TickTo(MaxTimeConc) /\ ObserveNone)
    \/ Requests(Threads, {"a1"}, ObserveNone)
    \/ \E t \in Threads : (UnblockIp_Filter(t, "a1") /\ ObserveNone)
    \/ \E t \in Threads : (UnblockIp_Limiter(t) /\ ObserveNone)
    \/ \E t \in Threads : (UnblockIp_Monitor(t) /\ ObserveNone)
    \/ \E t \in Threads : (ResetAll_Limiter(t) /\ ObserveNone)
    \/ \E t \in Threads : (ResetAll_Monitor(t) /\ ObserveNone)
    \/ \E t \in Threads : (ResetAll_Filter(t) /\ ObserveNone)
    \/ \E t \in Threads : (GetStats_Limiter(t) /\ ObserveNone)
    \/ \E t \in Threads : (GetStats_Monitor(t) /\ ObserveNone)
    \/ \E t \in Threads : (GetRecentAlerts(t, StatsAlertLimit) /\ ObserveNone)
    \/ \E t \in Threads : (GetStats_Filter(t) /\ ObserveNone)

SpecLocks == InitConc /\ [][NextLocks]_vars

\* ------------------------------------------ concurrent requests only
\* Two callers send requests for a1, their leaf calls interleaved in any
\* order; no administrative call is made.
NextEsc ==
    \/ (TickTo(MaxTimeConc) /\ ObserveNone)
    \/ Requests(Threads, {"a1"}, ObserveNone)

\* a1 on neither list, or whitelisted from the start
InitEsc == InitWith(ConfigsConc, { <<{}, {}>>, <<{"a1"}, {}>> })

SpecEsc == InitEsc /\ [][NextEsc]_vars

\* ------------------------------------- a limit within the threshold
\* max_requests <= suspicious_threshold * detection_window and
\* detection_window <= time_window
Within(c) ==
    /\ c.max_requests * c.thr_den <= c.thr_num * c.detection_window
    /\ c.detection_window <= c.time_window

\* three configurations with the limit exactly at the threshold (one request
\* in one second, and two requests in two seconds, under a threshold of one
\* request a second, the first with a time window of one and of two seconds)
\* and one with the limit above it (two requests in a second under a
\* threshold of 1/4 request a second); auto-block is on
ConfigsWithin ==
    { [DefaultConfig EXCEPT !.max_requests = 1, !.time_window = w,
                            !.block_duration = 1, !.thr_num = 1,
                            !.detection_window = 1, !.alert_threshold = 2] :
        w \in {1, 2} } \cup
    { [DefaultConfig EXCEPT !.max_requests = 2, !.time_window = 2,
                            !.block_duration = 1, !.thr_num = 1,
                            !.detection_window = 2, !.alert_threshold = 2],
      [DefaultConfig EXCEPT !.max_requests = 2, !.time_window = 1,
                            !.block_duration = 1, !.thr_num = 1, !.thr_den = 4,
                            !.detection_window = 1, !.alert_threshold = 2] }

\* both lists empty, or a2 whitelisted from the start
InitWithin == InitWith(ConfigsWithin, { <<{}, {}>>, <<{"a2"}, {}>> })

\* wlever: the addresses that have been in the whitelist
ObserveWithin == hist' = [hist EXCEPT !.wlever = hist.wlever \cup whitelist']

\* one caller, whose calls each run at one instant (time passes between
\* calls only): requests for both addresses, block_ip and unblock_ip for a1,
\* whitelist_ip for a2, reset_all and get_recent_alerts
NextWithin ==
    \/ (thr["t1"].pc = "idle" /\ TickTo(MaxTime) /\ ObserveWithin)
    \/ Requests({"t1"}, Addr, ObserveWithin)
    \/ \E d \in Durations : (BlockIp("t1", "a1", d, FALSE) /\ ObserveWithin)
    \/ (UnblockIp_Filter("t1", "a1") /\ ObserveWithin)
    \/ (UnblockIp_Limiter("t1") /\ ObserveWithin)
    \/ (UnblockIp_Monitor("t1") /\ ObserveWithin)
    \/ (WhitelistIp("t1", "a2") /\ ObserveWithin)
    \/ (ResetAll_Limiter("t1") /\ ObserveWithin)
    \/ (ResetAll_Monitor("t1") /\ ObserveWithin)
    \/ (ResetAll_Filter("t1") /\ ObserveWithin)
    \/ (GetRecentAlerts("t1", StatsAlertLimit) /\ ObserveWithin)

SpecWithin == InitWithin /\ [][NextWithin]_vars

\* --------------------------------------------- quiet after a block
\* the quiet period: max(block_duration, 600, time_window, detection_window)
Quiet(c) ==
    Max(Max(c.block_duration, AnomalyBlockDuration),
        Max(c.time_window, c.detection_window))

\* limiters of two requests a second that block for one second and for 601
\* seconds, under thresholds of 1/4 and of one request a second over one
\* second (5 * suspicious_threshold * detection_window >= 1 in both);
\* auto-block is on
ConfigsQuiet ==
    { [DefaultConfig EXCEPT !.max_requests = 2, !.time_window = 1,
                            !.block_duration = b, !.thr_num = 1, !.thr_den = d,
                            !.detection_window = 1, !.alert_threshold = 2] :
        b \in {1, AnomalyBlockDuration + 1}, d \in {1, 4} }

\* a1 on neither list, or whitelisted from the start
InitQuiet == InitWith(ConfigsQuiet, { <<{}, {}>>, <<{"a1"}, {}>> })

\* completed: the process_request calls that have returned; lastreq: the
\* time the latest process_request began; quiet: when it began, the one
\* before it had begun at least the quiet period earlier
ObserveQuiet ==
    LET begun == last'.op = "process_request" /\ thr["t1"].pc = "idle"
    IN  hist' = [hist EXCEPT
            !.completed = IF last'.op = "process_request" /\ last'.done
                          THEN hist.completed + 1 ELSE hist.completed,
            !.lastreq = IF begun THEN now ELSE hist.lastreq,
            !.quiet = IF begun
                      THEN /\ hist.lastreq # NoEntry
                           /\ now - hist.lastreq >= Quiet(cfg)
                      ELSE hist.quiet]

\* the address sends nothing for the quiet period
Sleep ==
    /\ thr["t1"].pc = "idle"
    /\ now <= MaxTimeConc
    /\ now' = now + Quiet(cfg)
    /\ last' = Ret("tick", NoIp, TRUE, FALSE, "", "")
    /\ UNCHANGED <<cfg, lock, ipf_vars, rl_vars, mon_vars, thr>>

\* the steps of the requests of a1, each request running at one instant: up
\* to MaxQuietCalls requests before the quiet period and one after it
QuietRequests ==
    \/ /\ \/ (now <= MaxTimeConc /\ hist.completed < MaxQuietCalls)
           \/ (now > MaxTimeConc /\ hist.lastreq < now)
       /\ PR_Filter("t1", "a1")
       /\ ObserveQuiet
    \/ (PR_IsWhitelisted("t1") /\ ObserveQuiet)
    \/ (PR_WhitelistRecord("t1") /\ ObserveQuiet)
    \/ (PR_RateLimit("t1") /\ ObserveQuiet)
    \/ (PR_EscalateRate("t1") /\ ObserveQuiet)
    \/ (PR_Record("t1") /\ ObserveQuiet)
    \/ (PR_Suspicious("t1") /\ ObserveQuiet)
    \/ (PR_EscalateSuspicious("t1") /\ ObserveQuiet)

QuietSleep == Sleep /\ ObserveQuiet

NextQuiet ==
    \/ (thr["t1"].pc = "idle" /\ TickTo(MaxTimeConc) /\ ObserveQuiet)
    \/ QuietSleep
    \/ QuietRequests

\* time goes on and a request that can take its next step takes it
SpecQuiet ==
    /\ InitQuiet /\ [][NextQuiet]_vars
    /\ WF_vars(QuietSleep) /\ WF_vars(QuietRequests)

\* ------------------------------------------------- one call at a time
\* the state of the three components
Components ==
    [whitelist |-> whitelist, blacklist |-> blacklist,
     temp_blocks |-> temp_blocks, requests |-> requests,
     blocked_ips |-> blocked_ips, ip_requests |-> ip_requests,
     ip_violations |-> ip_violations, alerts |-> alerts]

\* pre: the state of the components when the call in progress began;
\* report: what is_suspicious returned to the call in progress
ObserveCall ==
    hist' = [hist EXCEPT
               !.pre = IF thr["t1"].pc = "idle" THEN Components ELSE hist.pre,
               !.report = IF thr["t1"].pc = "is_suspicious"
                          THEN [asked |-> TRUE,
                                suspicious |-> last'.suspicious,
                                severity |-> last'.severity]
                          ELSE IF thr["t1"].pc = "idle" THEN NoReport
                          ELSE hist.report]

\* a limiter of two requests a second that blocks for one second; a monitor
\* threshold of 1/4 request a second with auto-block on, and of one request
\* a second with auto-block off
ConfigsCall ==
    { [max_requests |-> 2, time_window |-> 1, block_duration |-> 1,
       thr_num |-> 1, thr_den |-> 4, detection_window |-> 1,
       alert_threshold |-> 2, auto_block |-> TRUE],
      [max_requests |-> 2, time_window |-> 1, block_duration |-> 1,
       thr_num |-> 1, thr_den |-> 1, detection_window |-> 1,
       alert_threshold |-> 2, auto_block |-> FALSE] }

\* both lists empty, or a2 whitelisted from the start
InitCall == InitWith(ConfigsCall, { <<{}, {}>>, <<{"a2"}, {}>> })

\* one caller, whose calls run one after the other: requests for both
\* addresses, unblock_ip for both and a permanent block_ip for a2
NextCall ==
    \/ (TickTo(MaxTimeConc) /\ ObserveCall)
    \/ Requests({"t1"}, Addr, ObserveCall)
    \/ \E ip \in Addr : (UnblockIp_Filter("t1", ip) /\ ObserveCall)
    \/ (UnblockIp_Limiter("t1") /\ ObserveCall)
    \/ (UnblockIp_Monitor("t1") /\ ObserveCall)
    \/ (BlockIp("t1", "a2", NoEntry, TRUE) /\ ObserveCall)

SpecCall == InitCall /\ [][NextCall]_vars

\* thresholds of 1, 1/4 and 1/8 requests a second over windows of one
\* second, with auto-block on and off; a window of one or two requests is
\* then unsuspicious or of severity LOW, MEDIUM, HIGH or CRITICAL
ConfigsAnomaly ==
    { [max_requests |-> 2, time_window |-> 1, block_duration |-> 1,
       thr_num |-> 1, thr_den |-> d, detection_window |-> 1,
       alert_threshold |-> 2, auto_block |-> b] :
        d \in {1, 4, 8}, b \in BOOLEAN }

\* both lists empty, or a1 whitelisted from the start
InitAnomaly == InitWith(ConfigsAnomaly, { <<{}, {}>>, <<{"a1"}, {}>> })

\* one caller sending the requests of a1 and unblocking it
NextAnomaly ==
    \/ (TickTo(MaxTimeConc) /\ ObserveCall)
    \/ Requests({"t1"}, {"a1"}, ObserveCall)
    \/ (UnblockIp_Filter("t1", "a1") /\ ObserveCall)
    \/ (UnblockIp_Limiter("t1") /\ ObserveCall)
    \/ (UnblockIp_Monitor("t1") /\ ObserveCall)

SpecAnomaly == InitAnomaly /\ [][NextAnomaly]_vars

\* ------------------------------------------------------ after reset_all
\* pre: as in ObserveCall; since_reset: reset_all has returned and only
\* requests and the passage of time have followed it
ObserveReset ==
    hist' = [hist EXCEPT
               !.pre = IF thr["t1"].pc = "idle" THEN Components ELSE hist.pre,
               !.since_reset =
                   IF last'.op = "reset_all" THEN last'.done
                   ELSE IF last'.op \in {"process_request", "tick"}
                   THEN hist.since_reset
                   ELSE FALSE]

\* a limiter of two requests a second and a monitor threshold of 1/4 request
\* a second with auto-block on; the configured lists are empty or overlap
InitReset == InitWith(ConfigsCall \ {c \in ConfigsCall : ~c.auto_block}, InitLists)

\* one caller: requests for both addresses, reset_all, and for a2 a
\* permanent block_ip and whitelist_ip
NextReset ==
    \/ (TickTo(MaxTimeConc) /\ ObserveReset)
    \/ Requests({"t1"}, Addr, ObserveReset)
    \/ (ResetAll_Limiter("t1") /\ ObserveReset)
    \/ (ResetAll_Monitor("t1") /\ ObserveReset)
    \/ (ResetAll_Filter("t1") /\ ObserveReset)
    \/ (BlockIp("t1", "a2", NoEntry, TRUE) /\ ObserveReset)
    \/ (WhitelistIp("t1", "a2") /\ ObserveReset)

SpecReset == InitReset /\ [][NextReset]_vars

\* ------------------------------------- a request and a change of lists
\* answered: the IP-filter lookup that opened the latest request of t1
\* found the address in the whitelist
ObserveRace ==
    hist' = [hist EXCEPT
               !.answered = IF thr["t1"].pc = "idle" /\ last'.op = "process_request"
                            THEN last'.ip \in whitelist
                            ELSE hist.answered]

\* a1 is whitelisted from the start
InitRace == InitWith(ConfigsConc, { <<{"a1"}, {}>> })

\* t1 sends the requests of a1 while t2 takes a1 off the whitelist, blocks
\* it permanently or whitelists it again
NextRace ==
    \/ (TickTo(MaxTimeConc) /\ ObserveRace)
    \/ Requests({"t1"}, {"a1"}, ObserveRace)
    \/ (RemoveFromWhitelist("t2", "a1") /\ ObserveRace)
    \/ (BlockIp("t2", "a1", NoEntry, TRUE) /\ ObserveRace)
    \/ (WhitelistIp("t2", "a1") /\ ObserveRace)

SpecRace == InitRace /\ [][NextRace]_vars

\* --------------------------------------- the limiter's request count
\* limiters of two requests in one and in two seconds that block for one
ConfigsCount ==
    { [DefaultConfig EXCEPT !.max_requests = 2, !.time_window = w,
                            !.block_duration = 1] : w \in {1, 2} }

InitCount == InitWith(ConfigsCount, { <<{}, {}>> })

\* is_allowed and get_request_count for both addresses, unblock_ip for a1
NextCount ==
    \/ (TickTo(MaxTimeConc) /\ ObserveRL)
    \/ \E ip \in Addr : (RL_IsAllowed(ip) /\ ObserveRL)
    \/ \E ip \in Addr : (RL_GetRequestCount(ip) /\ ObserveRL)
    \/ (RL_UnblockIp("a1") /\ ObserveRL)

SpecCount == InitCount /\ [][NextCount]_vars

\* ------------------------------- the limiter's administrative control
\* manual[a]: now + d of the latest block_ip(a, d) (now + block_duration
\* for d = None) while no unblock_ip(a) and no reset followed it;
\* unblocked[a]: unblock_ip(a) was called and neither block_ip(a) nor
\* is_allowed(a) since; paired: the address block_ip was called for with
\* nothing but time passing since, pre the state of the components before
\* that call; restored: the step was the unblock_ip of that address
ObserveAdmin ==
    hist' = [hist EXCEPT
        !.manual = [a \in Addr |->
            IF last'.op = "rl.reset" THEN NoEntry
            ELSE IF last'.ip # a THEN hist.manual[a]
            ELSE IF last'.op = "rl.block_ip"
            THEN now + (IF last'.duration # NoEntry THEN last'.duration
                        ELSE cfg.block_duration)
            ELSE IF last'.op = "rl.unblock_ip" THEN NoEntry
            ELSE hist.manual[a]],
        !.unblocked = [a \in Addr |->
            IF last'.ip # a THEN hist.unblocked[a]
            ELSE IF last'.op = "rl.unblock_ip" THEN TRUE
            ELSE IF last'.op \in {"rl.block_ip", "rl.is_allowed"} THEN FALSE
            ELSE hist.unblocked[a]],
        !.paired = IF last'.op = "rl.block_ip" THEN last'.ip
                   ELSE IF last'.op = "tick" THEN hist.paired ELSE NoIp,
        !.restored = last'.op = "rl.unblock_ip" /\ hist.paired = last'.ip,
        !.pre = IF last'.op = "rl.block_ip" THEN Components ELSE hist.pre]

\* limiters of one request in two seconds that block for one and for two
\* seconds
ConfigsAdmin ==
    { [DefaultConfig EXCEPT !.max_requests = 1, !.time_window = 2,
                            !.block_duration = b] : b \in 1 .. MaxB }

InitAdmin == InitWith(ConfigsAdmin, { <<{}, {}>> })

\* block_ip with every duration for a1, the other methods for both addresses
NextAdmin ==
    \/ (TickTo(MaxTimeConc) /\ ObserveAdmin)
    \/ \E ip \in Addr : (RL_IsAllowed(ip) /\ ObserveAdmin)
    \/ \E ip \in Addr : (RL_IsBlocked(ip) /\ ObserveAdmin)
    \/ \E d \in Durations \cup {2} : (RL_BlockIp("a1", d) /\ ObserveAdmin)
    \/ \E ip \in Addr : (RL_UnblockIp(ip) /\ ObserveAdmin)
    \/ (RL_Reset /\ ObserveAdmin)

SpecAdmin == InitAdmin /\ [][NextAdmin]_vars

\* ---------------------------------------------- the IPFilter on its own
\* The methods of the leaf, called directly, each under the leaf's lock.
IPF_IsAllowed(ip) ==
    /\ Free("ip_filter")
    /\ LET r == IPFilter_is_allowed(ip)
       IN  /\ temp_blocks' = r.temp_blocks
           /\ last' = [Ret("ipf.is_allowed", ip, TRUE, r.allowed, "", "")
                          EXCEPT !.reason = r.reason]
    /\ UNCHANGED <<now, cfg, lock, whitelist, blacklist, rl_vars, mon_vars, thr>>

IPF_AddToWhitelist(ip) ==
    /\ Free("ip_filter")
    /\ LET r == IPFilter_add_to_whitelist(ip)
       IN  /\ whitelist' = r.whitelist
           /\ blacklist' = r.blacklist
           /\ temp_blocks' = r.temp_blocks
    /\ last' = Ret("ipf.add_to_whitelist", ip, TRUE, FALSE, "", "")
    /\ UNCHANGED <<now, cfg, lock, rl_vars, mon_vars, thr>>

IPF_RemoveFromWhitelist(ip) ==
    /\ Free("ip_filter")
    /\ whitelist' = IPFilter_remove_from_whitelist(ip)
    /\ last' = Ret("ipf.remove_from_whitelist", ip, TRUE, FALSE, "", "")
    /\ UNCHANGED <<now, cfg, lock, blacklist, temp_blocks, rl_vars, mon_vars, thr>>

IPF_AddToBlacklist(ip) ==
    /\ Free("ip_filter")
    /\ LET r == IPFilter_add_to_blacklist(ip)
       IN  /\ whitelist' = r.whitelist
           /\ blacklist' = r.blacklist
           /\ temp_blocks' = r.temp_blocks
    /\ last' = Ret("ipf.add_to_blacklist", ip, TRUE, FALSE, "", "")
    /\ UNCHANGED <<now, cfg, lock, rl_vars, mon_vars, thr>>

IPF_RemoveFromBlacklist(ip) ==
    /\ Free("ip_filter")
    /\ blacklist' = IPFilter_remove_from_blacklist(ip)
    /\ last' = Ret("ipf.remove_from_blacklist", ip, TRUE, FALSE, "", "")
    /\ UNCHANGED <<now, cfg, lock, whitelist, temp_blocks, rl_vars, mon_vars, thr>>

IPF_BlockTemporarily(ip, duration) ==
    /\ Free("ip_filter")
    /\ temp_blocks' = IPFilter_block_temporarily(ip, duration)
    /\ last' = [Ret("ipf.block_temporarily", ip, TRUE, FALSE, "", "")
                   EXCEPT !.duration = duration]
    /\ UNCHANGED <<now, cfg, lock, whitelist, blacklist, rl_vars, mon_vars, thr>>

IPF_Unblock(ip) ==
    /\ Free("ip_filter")
    /\ temp_blocks' = IPFilter_unblock(ip)
    /\ last' = Ret("ipf.unblock", ip, TRUE, FALSE, "", "")
    /\ UNCHANGED <<now, cfg, lock, whitelist, blacklist, rl_vars, mon_vars, thr>>

IPF_Reset ==
    /\ Free("ip_filter")
    /\ temp_blocks' = IPFilter_reset
    /\ last' = Ret("ipf.reset", NoIp, TRUE, FALSE, "", "")
    /\ UNCHANGED <<now, cfg, lock, whitelist, blacklist, rl_vars, mon_vars, thr>>

\* the filter starts from the configured lists, which may overlap
InitIPF == InitWith({DefaultConfig}, InitLists)

\* temp blocks of one second up to MaxB seconds
DurationsIPF == 1..MaxB

NextIPF ==
    \/ (TickTo(MaxTime) /\ ObserveCall)
    \/ \E ip \in Addr : (IPF_IsAllowed(ip) /\ ObserveCall)
    \/ \E ip \in Addr : (IPF_AddToWhitelist(ip) /\ ObserveCall)
    \/ \E ip \in Addr : (IPF_RemoveFromWhitelist(ip) /\ ObserveCall)
    \/ \E ip \in Addr : (IPF_AddToBlacklist(ip) /\ ObserveCall)
    \/ \E ip \in Addr : (IPF_RemoveFromBlacklist(ip) /\ ObserveCall)
    \/ \E ip \in Addr, d \in DurationsIPF : (IPF_BlockTemporarily(ip, d) /\ ObserveCall)
    \/ \E ip \in Addr : (IPF_Unblock(ip) /\ ObserveCall)
    \/ (IPF_Reset /\ ObserveCall)

SpecIPF == InitIPF /\ [][NextIPF]_vars

\* ------------------------------------------------ the monitor's alert log
\* traffic_monitor.record_request called on the leaf
Mon_RecordRequest(ip) ==
    /\ Free("traffic_monitor")
    /\ LET r == TrafficMonitor_record_request(ip)
       IN  /\ ip_requests' = r.ip_requests
           /\ ip_violations' = r.ip_violations
           /\ alerts' = r.alerts
    /\ last' = Ret("mon.record_request", ip, TRUE, FALSE, "", "")
    /\ UNCHANGED <<now, cfg, lock, ipf_vars, rl_vars, thr>>

\* raised: the alert-worthy events so far, oldest first: a request that
\* raised the address's violation count to alert_threshold or beyond
ObserveAlerts ==
    LET ip == last'.ip
        worthy == /\ last'.op = "mon.record_request"
                  /\ ip_violations'[ip] > ip_violations[ip]
                  /\ ip_violations'[ip] >= cfg.alert_threshold
    IN  hist' = [hist EXCEPT
                   !.raised = IF worthy
                              THEN Append(hist.raised,
                                          [timestamp |-> now, ip |-> ip,
                                           violation_count |-> ip_violations'[ip]])
                              ELSE hist.raised]

\* a threshold of one request a second over windows of one second, with
\* alerts from the second violation on: the first request of a second is no
\* violation, and the first violation raises no alert
ConfigsAlerts ==
    { [DefaultConfig EXCEPT !.thr_num = 1, !.thr_den = 1,
                            !.detection_window = 1, !.alert_threshold = 2] }

InitAlerts == InitWith(ConfigsAlerts, {<<{}, {}>>})

LimitsAlerts == {1000}

NextAlerts ==
    \/ (TickTo(MaxTimeAlerts) /\ ObserveAlerts)
    \/ (ip_violations["a1"] < MaxAlertEvents /\ Mon_RecordRequest("a1")
           /\ ObserveAlerts)
    \/ \E limit \in LimitsAlerts : (GetRecentAlerts("t1", limit) /\ ObserveAlerts)

SpecAlerts == InitAlerts /\ [][NextAlerts]_vars

\* ------------------------------------------ the TrafficMonitor on its own
\* traffic_monitor.is_suspicious called on the leaf; out is the details
\* dictionary, empty for None
Mon_IsSuspicious(ip) ==
    /\ Free("traffic_monitor")
    /\ LET r == TrafficMonitor_is_suspicious(ip)
       IN  /\ ip_requests' = r.ip_requests
           /\ last' = [Ret("mon.is_suspicious", ip, TRUE, FALSE, "", "")
                          EXCEPT !.suspicious = r.suspicious,
                                 !.severity = r.severity,
                                 !.out = IF r.suspicious
                                         THEN << [len |-> Len(r.ip_requests[ip]),
                                                  violations |-> r.violations,
                                                  severity |-> r.severity] >>
                                         ELSE << >>]
    /\ UNCHANGED <<now, cfg, lock, ipf_vars, rl_vars, ip_violations, alerts, thr>>

Mon_ResetViolations(ip) ==
    /\ Free("traffic_monitor")
    /\ ip_violations' = TrafficMonitor_reset_violations(ip)
    /\ last' = Ret("mon.reset_violations", ip, TRUE, FALSE, "", "")
    /\ UNCHANGED <<now, cfg, lock, ipf_vars, rl_vars, ip_requests, alerts, thr>>

Mon_Reset ==
    /\ Free("traffic_monitor")
    /\ ip_requests' = TrafficMonitor_reset.ip_requests
    /\ ip_violations' = TrafficMonitor_reset.ip_violations
    /\ alerts' = TrafficMonitor_reset.alerts
    /\ last' = Ret("mon.reset", NoIp, TRUE, FALSE, "", "")
    /\ UNCHANGED <<now, cfg, lock, ipf_vars, rl_vars, thr>>

\* a threshold of one request a second over windows of one and of two
\* seconds, with alerts from the second violation on
ConfigsMon ==
    { [DefaultConfig EXCEPT !.thr_num = 1, !.thr_den = 1,
                            !.detection_window = d, !.alert_threshold = 2] :
        d \in {1, 2} }

InitMon == InitWith(ConfigsMon, {<<{}, {}>>})

\* record_request leaves the monitor within the bounds of this specification
MonBounded(ip) ==
    LET r == TrafficMonitor_record_request(ip)
    IN  /\ Len(r.ip_requests[ip]) <= MaxMonViolations
        /\ r.ip_violations[ip] <= MaxMonViolations
        /\ Len(r.alerts) <= MaxAlerts + 1

NextMon ==
    \/ (TickTo(MaxTimeConc) /\ ObserveCall)
    \/ \E ip \in Addr : (MonBounded(ip) /\ Mon_RecordRequest(ip) /\ ObserveCall)
    \/ \E ip \in Addr : (Mon_IsSuspicious(ip) /\ ObserveCall)
    \/ (Mon_ResetViolations("a1") /\ ObserveCall)
    \/ (Mon_Reset /\ ObserveCall)

SpecMon == InitMon /\ [][NextMon]_vars

\* a short alert log read with every limit from 0 to MaxLimit
NextRecent ==
    \/ (TickTo(MaxTimeAlerts) /\ ObserveAlerts)
    \/ (ip_violations["a1"] < MaxRecentEvents /\ Mon_RecordRequest("a1")
           /\ ObserveAlerts)
    \/ \E limit \in 0..MaxLimit : (GetRecentAlerts("t1", limit) /\ ObserveAlerts)

SpecRecent == InitAlerts /\ [][NextRecent]_vars

\* _calculate_severity called on a monitor of any threshold and detection
\* window within the bounds, with the rate of a window of len timestamps
CalculateSeverity(len) ==
    /\ last' = [Ret("calculate_severity", NoIp, TRUE, FALSE, "", "")
                   EXCEPT !.severity = TrafficMonitor_calculate_severity(len),
                          !.arg = len]
    /\ UNCHANGED <<now, cfg, lock, ipf_vars, rl_vars, mon_vars, thr, hist>>

ConfigsSeverity ==
    { [DefaultConfig EXCEPT !.thr_num = n, !.thr_den = d,
                            !.detection_window = w] :
        n \in 1..MaxThrNum, d \in 1..MaxThrDen, w \in 1..MaxDetWindow }

InitSeverity == InitWith(ConfigsSeverity, {<<{}, {}>>})

NextSeverity == \E len \in 0..MaxSevLen : CalculateSeverity(len)

SpecSeverity == InitSeverity /\ [][NextSeverity]_vars

\* ------------------------------------------------------------- claims
\* the calls the limiter admitted for a with a timestamp in (T - window, T]
AdmittedIn(a, T) ==
    { i \in DOMAIN hist.admitted[a] :
        /\ hist.admitted[a][i] > T - cfg.time_window
        /\ hist.admitted[a][i] <= T }

\* C1: for an address without prior state, each of the first max_requests
\* is_allowed calls made less than time_window seconds after the first is
\* allowed, and the call after them made within that time is denied and
\* sets the address's block to expire at now + block_duration.
C1_Threshold ==
    LET a == last.ip
    IN  (/\ last.op = "rl.is_allowed"
         /\ hist.calls[a] \in 1 .. cfg.max_requests + 1
         /\ now - hist.first[a] < cfg.time_window)
        => IF hist.calls[a] <= cfg.max_requests
           THEN last.allowed
           ELSE ~last.allowed /\ blocked_ips[a] = now + cfg.block_duration

\* the third call is denied a second after the first, limit 2, window 2
C1_Witness ==
    /\ last.op = "rl.is_allowed"
    /\ cfg.max_requests = 2 /\ cfg.time_window = 2 /\ cfg.block_duration = 1
    /\ hist.calls[last.ip] = 3
    /\ now = hist.first[last.ip] + 1
    /\ ~last.allowed
    /\ blocked_ips[last.ip] = now + 1

\* C2: under any interleaving of the leaf calls of concurrent
\* process_request calls for one address, the calls the limiter has
\* admitted since the last reset with a timestamp in any trailing window of
\* time_window seconds are at most max_requests.
C2_WindowBound ==
    \A a \in Addr : \A T \in 0 .. now :
        Cardinality(AdmittedIn(a, T)) <= cfg.max_requests

\* both threads are inside process_request, the window is full and the
\* limiter has just turned one of them away
C2_Witness ==
    /\ \A t \in Threads : thr[t].pc # "idle"
    /\ last.rl = "Rate limit exceeded"
    /\ Cardinality(AdmittedIn(last.ip, now)) = cfg.max_requests
    /\ now > 0

C4_Burst ==
    (last.op = "process_request" /\ last.done)
    => /\ hist.completed <= cfg.max_requests => last.allowed
       /\ (/\ hist.completed > cfg.max_requests
           /\ now < hist.first_deny + cfg.block_duration) => ~last.allowed

\* a request is still denied one second before the block runs out
C4_Witness ==
    /\ last.op = "process_request" /\ last.done /\ ~last.allowed
    /\ cfg.max_requests = DefaultMaxRequests
    /\ hist.completed > cfg.max_requests + 1
    /\ hist.first_deny = 0
    /\ now = cfg.block_duration - 1

\* C5 (as amended): in that burst the first denial comes from the rate
\* limiter, and every later denial before block_duration seconds have passed
\* since it comes from the IP filter, whose temporary block the first denial
\* set.
C5_DenialSource ==
    (last.op = "process_request" /\ last.done /\ ~last.allowed)
    => /\ hist.completed = cfg.max_requests + 1
          => last.by = "rate_limiter"
       /\ (/\ hist.completed > cfg.max_requests + 1
           /\ now < hist.first_deny + cfg.block_duration)
          => last.by = "ip_filter"

C5_Witness ==
    /\ last.op = "process_request" /\ last.done /\ ~last.allowed
    /\ hist.completed = cfg.max_requests + 2
    /\ now = hist.first_deny
    /\ last.by = "ip_filter"

\* C5 as stated: every denial of the burst comes from the rate limiter.
C5_Original ==
    (/\ last.op = "process_request" /\ last.done /\ ~last.allowed
     /\ now < hist.first_deny + cfg.block_duration)
    => last.by = "rate_limiter"

\* the state of address y that a verdict for y is computed from
StateOf(y) ==
    <<temp_blocks[y], requests[y], blocked_ips[y], ip_requests[y],
      ip_violations[y], y \in whitelist, y \in blacklist>>

\* the steps of process_request
RequestPcs ==
    {"is_whitelisted", "whitelist_record", "rate_limiter", "escalate_rate",
     "record", "is_suspicious", "escalate_suspicious"}

\* C6: a process_request for an address that is whitelisted in every state
\* of the call takes the whitelist path only: no step of it changes a
\* request window, the limiter's block map or a temporary block, none is a
\* step that calls the rate limiter, and the call returns allowed.
C6_WhitelistBypass ==
    [][\A t \in Threads :
         LET begins == /\ last'.op = "process_request"
                       /\ thr[t].pc = "idle" /\ thr'[t].pc # "idle"
                       /\ thr'[t].ip \in whitelist
             goes_on == /\ thr[t].pc \in RequestPcs
                        /\ thr'[t] # thr[t]
                        /\ hist.wl[t]
         IN  (begins \/ goes_on)
             => /\ requests' = requests
                /\ blocked_ips' = blocked_ips
                /\ temp_blocks' = temp_blocks
                /\ thr'[t].pc \in {"is_whitelisted", "whitelist_record", "idle"}
                /\ thr'[t].pc = "idle"
                      => last'.allowed /\ last'.by = "whitelist"]_vars

\* a request returns allowed on the whitelist path while the limiter still
\* holds an unexpired block and a full window for its address
C6_Witness ==
    /\ last.op = "process_request" /\ last.done /\ last.allowed
    /\ last.by = "whitelist"
    /\ last.ip \in whitelist
    /\ blocked_ips[last.ip] # NoEntry /\ now < blocked_ips[last.ip]
    /\ Len(requests[last.ip]) = cfg.max_requests

\* C7: while an address is in the blacklist, every process_request for it
\* returns denied.
C7_BlacklistDenied ==
    (last.op = "process_request" /\ last.done /\ last.ip \in blacklist)
    => ~last.allowed

\* C8: a step of process_request(x) leaves unchanged, for every other
\* address y, y's limiter window and block, y's temporary block, y's monitor
\* window and violation count and y's list membership, which together with
\* the configuration and the time are all a verdict for y is computed from.
C8_Independence ==
    [][last'.op = "process_request"
       => \A y \in Addr \ {last'.ip} : StateOf(y)' = StateOf(y)]_vars

\* a2's request is allowed while a1, driven past its limit, is blocked by
\* the limiter and has another request in flight
C8_Witness ==
    /\ last.op = "process_request" /\ last.done /\ last.allowed
    /\ last.ip = "a2"
    /\ thr["t1"].pc # "idle"
    /\ blocked_ips["a1"] # NoEntry /\ now < blocked_ips["a1"]
    /\ Len(requests["a2"]) > 0

\* C9: after a temporary block_ip(a) that took effect and an unblock_ip(a),
\* the violation count of a is zero and the next process_request(a) is
\* allowed.
C9_UnblockRestores ==
    [][/\ (/\ last'.op = "unblock_ip" /\ last'.done
            /\ hist.seq[last'.ip] \in {"blocked", "unblocking"})
          => ip_violations'[last'.ip] = 0
       /\ (/\ last'.op = "process_request" /\ last'.done
            /\ hist.seq[last'.ip] \in {"unblocked", "requesting"})
          => last'.allowed]_vars

\* C10: block_ip(a, duration = d) with d given, not permanent, for an address
\* on neither list sets a's temporary block to expire at now + d.
C10_ExactDuration ==
    (/\ last.op = "block_ip" /\ ~last.permanent
     /\ last.duration # NoEntry
     /\ last.ip \notin whitelist \cup blacklist)
    => temp_blocks[last.ip] = now + last.duration

\* the leaf whose lock the next step of a thread at pc has to acquire
WaitsFor(pc) ==
    CASE pc \in {"is_whitelisted", "escalate_rate", "escalate_suspicious",
                 "reset_ipf", "stats_filter"} -> "ip_filter"
      [] pc \in {"rate_limiter", "unblock_rl"} -> "rate_limiter"
      [] OTHER -> "traffic_monitor"

\* C11: no call hangs: a thread that is inside no call holds no leaf lock,
\* and a thread inside a call never waits for a leaf lock that it holds
\* itself (which no other step can ever release).
C11_NoHang ==
    \A t \in Threads :
        IF thr[t].pc = "idle"
        THEN \A l \in Leaves : lock[l] # t
        ELSE lock[WaitsFor(thr[t].pc)] # t

\* the rate len / detection_window against k times the threshold, in whole
\* numbers: -1, 0 or 1 as the rate is below, at or above k * threshold
Against(len, k) ==
    LET lhs == len * cfg.thr_den
        rhs == k * cfg.thr_num * cfg.detection_window
    IN  IF lhs < rhs THEN 0 - 1 ELSE IF lhs = rhs THEN 0 ELSE 1

\* C12: for a rate r above the threshold T the severity is CRITICAL iff
\* r > 10T, HIGH iff 5T < r <= 10T, MEDIUM iff 2T < r <= 5T and LOW iff
\* T < r <= 2T; a rate exactly at 10T, 5T or 2T falls in the lower band.
C12_SeverityBands ==
    (last.op = "calculate_severity" /\ Against(last.arg, 1) = 1) =>
        /\ (last.severity = "CRITICAL") = (Against(last.arg, 10) = 1)
        /\ (last.severity = "HIGH") =
               (Against(last.arg, 5) = 1 /\ Against(last.arg, 10) <= 0)
        /\ (last.severity = "MEDIUM") =
               (Against(last.arg, 2) = 1 /\ Against(last.arg, 5) <= 0)
        /\ (last.severity = "LOW") =
               (Against(last.arg, 1) = 1 /\ Against(last.arg, 2) <= 0)

\* a rate exactly ten times the threshold was classified
C12_Witness ==
    /\ last.op = "calculate_severity"
    /\ Against(last.arg, 10) = 0
    /\ last.severity = "HIGH"

\* the most recent Min(limit, number raised) alert-worthy events, in the
\* order they were raised
RecentRaised(limit) ==
    LET n == Len(hist.raised)
    IN  SubSeq(hist.raised, n - Min(limit, n) + 1, n)

\* the alerts of log are the events of events, one for one and in order
SameEvents(log, events) ==
    /\ Len(log) = Len(events)
    /\ \A i \in 1..Len(log) :
           /\ log[i].timestamp = events[i].timestamp
           /\ log[i].ip = events[i].ip
           /\ log[i].violation_count = events[i].violation_count

\* C13: the alert log never holds more than 100 alerts; it holds exactly the
\* most recent min(count, 100) of the alert-worthy events so far, in the
\* order they were raised, with non-decreasing timestamps, and
\* get_recent_alerts(1000) returns that sequence.
C13_AlertLog ==
    /\ Len(alerts) <= 100
    /\ SameEvents(alerts, RecentRaised(100))
    /\ \A i \in 1..(Len(alerts) - 1) :
           alerts[i].timestamp <= alerts[i + 1].timestamp
    /\ (last.op = "get_recent_alerts" /\ last.arg = 1000) =>
           SameEvents(last.out, RecentRaised(100))

\* more than 100 alert-worthy events, some of them in the second second,
\* and the log was then read
C13_Witness ==
    /\ Len(hist.raised) > 100
    /\ hist.raised[Len(hist.raised)].timestamp = 1
    /\ hist.raised[1].timestamp = 0
    /\ last.op = "get_recent_alerts"
    /\ last.arg = 1000

\* C14: get_recent_alerts(limit) returns exactly the last
\* min(limit, len(log)) alerts of the log in log order, for every limit >= 0;
\* limit 0 returns the empty sequence and no call returns more than limit
\* alerts.
C14_RecentAlerts ==
    (last.op = "get_recent_alerts" /\ last.arg >= 0) =>
        LET k == Min(last.arg, Len(alerts))
        IN  /\ Len(last.out) = k
            /\ \A i \in 1..k : last.out[i] = alerts[Len(alerts) - k + i]
            /\ Len(last.out) <= last.arg

\* C15: in every state of the IP filter, the initial one built from the
\* configured lists included, no address is in both the whitelist and the
\* blacklist.
C15_Disjoint == whitelist \cap blacklist = {}

\* C16: every denied process_request names in its details the component
\* that denied it (IP filter, rate limiter or traffic monitor), and every
\* allowed one names no denying component.
C16_DenialNamed ==
    (last.op = "process_request" /\ last.done) =>
        (~last.allowed) =
            (last.by \in {"ip_filter", "rate_limiter", "traffic_monitor"})

\* C17: a process_request denied by the IP filter leaves the rate limiter,
\* the monitor and the address's temp-block expiry as they were when the
\* call began; one denied by the rate limiter leaves the monitor as it was
\* (no timestamp, no violation, no alert).
C17_EarlyReturn ==
    (last.op = "process_request" /\ last.done /\ ~last.allowed) =>
        /\ last.by = "ip_filter" =>
               /\ requests = hist.pre.requests
               /\ blocked_ips = hist.pre.blocked_ips
               /\ ip_requests = hist.pre.ip_requests
               /\ ip_violations = hist.pre.ip_violations
               /\ alerts = hist.pre.alerts
               /\ temp_blocks[last.ip] = hist.pre.temp_blocks[last.ip]
        /\ last.by = "rate_limiter" =>
               /\ ip_requests = hist.pre.ip_requests
               /\ ip_violations = hist.pre.ip_violations
               /\ alerts = hist.pre.alerts

\* a request is denied by the IP filter on an unexpired temp block, for an
\* address with requests in the limiter's and the monitor's window
C17_Witness ==
    /\ last.op = "process_request" /\ last.done /\ ~last.allowed
    /\ last.by = "ip_filter"
    /\ last.ip \notin blacklist
    /\ temp_blocks[last.ip] # NoEntry
    /\ requests[last.ip] # << >>
    /\ ip_requests[last.ip] # << >>

\* C18: when process_request(a) is denied by the rate limiter and auto-block
\* is on, a has on return a temp block that expires block_duration seconds
\* after the escalation (unless a is whitelisted or blacklisted), and the
\* limiter's own block as well; when auto-block is off the IP filter is as
\* it was when the call began, but for an expired temp block of a that the
\* call's own filter lookup deleted.
C18_RateEscalation ==
    (/\ last.op = "process_request" /\ last.done /\ ~last.allowed
     /\ last.by = "rate_limiter") =>
        IF cfg.auto_block
        THEN /\ last.ip \notin (whitelist \cup blacklist) =>
                    temp_blocks[last.ip] = now + cfg.block_duration
             /\ blocked_ips[last.ip] # NoEntry
        ELSE /\ whitelist = hist.pre.whitelist
             /\ blacklist = hist.pre.blacklist
             /\ \A b \in Addr :
                    \/ temp_blocks[b] = hist.pre.temp_blocks[b]
                    \/ /\ b = last.ip
                       /\ temp_blocks[b] = NoEntry
                       /\ hist.pre.temp_blocks[b] # NoEntry
                       /\ hist.pre.temp_blocks[b] <= now

\* a request made in the second second is denied by the rate limiter with
\* auto-block on and returns with the escalation's temp block set
C18_Witness ==
    /\ last.op = "process_request" /\ last.done /\ ~last.allowed
    /\ last.by = "rate_limiter"
    /\ cfg.auto_block
    /\ now = 1
    /\ hist.pre.temp_blocks[last.ip] = NoEntry
    /\ temp_blocks[last.ip] = now + cfg.block_duration

\* C19: a process_request(a) that passed the IP filter, not whitelisted,
\* and the rate limiter is denied if and only if the monitor, asked after
\* recording it, reports a suspicious with severity HIGH or CRITICAL and
\* auto-block is on, and then a has a temp block of 600 seconds; otherwise
\* the request is allowed and a has no temp block.
C19_AnomalyBlock ==
    (last.op = "process_request" /\ last.done /\ hist.report.asked) =>
        LET deny == /\ hist.report.suspicious
                    /\ hist.report.severity \in {"HIGH", "CRITICAL"}
                    /\ cfg.auto_block
        IN  /\ last.allowed = ~deny
            /\ temp_blocks[last.ip] = IF deny THEN now + 600 ELSE NoEntry

\* a request is denied on a report of severity CRITICAL
C19_Witness ==
    /\ last.op = "process_request" /\ last.done /\ ~last.allowed
    /\ hist.report.asked
    /\ hist.report.severity = "CRITICAL"
    /\ temp_blocks[last.ip] = now + 600

\* C20: unblock_ip(a), run with no other operation in between, leaves a
\* with no temp-block entry, no rate-limiter block entry and violation
\* count 0, and leaves as they were the whitelist, the blacklist, a's
\* request window in the limiter, a's window in the monitor, the alert log
\* and all state of every other address.
C20_UnblockFrame ==
    (last.op = "unblock_ip" /\ last.done) =>
        LET a == last.ip
        IN  /\ temp_blocks[a] = NoEntry
            /\ blocked_ips[a] = NoEntry
            /\ ip_violations[a] = 0
            /\ whitelist = hist.pre.whitelist
            /\ blacklist = hist.pre.blacklist
            /\ requests[a] = hist.pre.requests[a]
            /\ ip_requests[a] = hist.pre.ip_requests[a]
            /\ alerts = hist.pre.alerts
            /\ \A b \in Addr \ {a} :
                   /\ temp_blocks[b] = hist.pre.temp_blocks[b]
                   /\ requests[b] = hist.pre.requests[b]
                   /\ blocked_ips[b] = hist.pre.blocked_ips[b]
                   /\ ip_requests[b] = hist.pre.ip_requests[b]
                   /\ ip_violations[b] = hist.pre.ip_violations[b]

\* unblock_ip returns for an address that had a temp block, violations and
\* requests in both windows, while the other address has a temp block, a
\* limiter block and an alert is in the log
C20_Witness ==
    /\ last.op = "unblock_ip" /\ last.done
    /\ hist.pre.temp_blocks[last.ip] # NoEntry
    /\ hist.pre.ip_violations[last.ip] > 0
    /\ requests[last.ip] # << >>
    /\ ip_requests[last.ip] # << >>
    /\ alerts # << >>
    /\ \E b \in Addr \ {last.ip} :
           temp_blocks[b] # NoEntry /\ blocked_ips[b] # NoEntry

\* C21: IPFilter.is_allowed(a) answers Whitelisted (allowed) if a is in the
\* whitelist; else blacklisted (denied) if a is in the blacklist; else
\* temporarily blocked (denied) iff a has a temp block with now < expiry;
\* else Allowed.  An entry with now >= expiry is removed by the lookup and
\* causes no denial; a lookup that denies removes nothing.
C21_Precedence ==
    (last.op = "ipf.is_allowed") =>
        LET a == last.ip
            was == hist.pre
            listed == a \in was.whitelist \cup was.blacklist
            entry == was.temp_blocks[a]
        IN  /\ a \in was.whitelist =>
                   last.allowed /\ last.reason = "Whitelisted"
            /\ (a \notin was.whitelist /\ a \in was.blacklist) =>
                   ~last.allowed /\ last.reason = "IP is blacklisted"
            /\ ~listed =>
                   /\ (entry # NoEntry /\ now < entry) =
                          (~last.allowed /\ last.reason = "IP temporarily blocked")
                   /\ ~(entry # NoEntry /\ now < entry) =
                          (last.allowed /\ last.reason = "Allowed")
            /\ (entry # NoEntry /\ now >= entry) =>
                   last.allowed /\ temp_blocks[a] = NoEntry
            /\ ~last.allowed => temp_blocks = was.temp_blocks
            /\ whitelist = was.whitelist /\ blacklist = was.blacklist
            /\ \A b \in Addr \ {a} : temp_blocks[b] = was.temp_blocks[b]

\* a lookup found an expired temp block, removed it and allowed, while the
\* other address is in both lists
C21_Witness ==
    /\ last.op = "ipf.is_allowed" /\ last.allowed
    /\ hist.pre.temp_blocks[last.ip] # NoEntry
    /\ now >= hist.pre.temp_blocks[last.ip]
    /\ temp_blocks[last.ip] = NoEntry
    /\ whitelist \cap blacklist # {}

\* C22: block_temporarily(a, d) leaves the IP filter as it was when a is in
\* the whitelist or in the blacklist; otherwise it sets a's temp-block
\* expiry to now + d and changes nothing else.  A whitelisted address
\* therefore never holds a temp block, and no lookup denies it.
C22_BlockTemporarily ==
    /\ (last.op = "ipf.block_temporarily") =>
           LET a == last.ip
               was == hist.pre
           IN  /\ whitelist = was.whitelist
               /\ blacklist = was.blacklist
               /\ \A b \in Addr \ {a} : temp_blocks[b] = was.temp_blocks[b]
               /\ temp_blocks[a] =
                      IF a \in was.whitelist \cup was.blacklist
                      THEN was.temp_blocks[a] ELSE now + last.duration
    /\ \A a \in whitelist : temp_blocks[a] = NoEntry
    /\ (last.op = "ipf.is_allowed" /\ last.ip \in whitelist) => last.allowed

\* block_temporarily was called for a whitelisted address while the other
\* address holds a temp block
C22_Witness ==
    /\ last.op = "ipf.block_temporarily"
    /\ last.ip \in whitelist
    /\ last.ip \notin blacklist
    /\ temp_blocks[last.ip] = NoEntry
    /\ \E b \in Addr \ {last.ip} : temp_blocks[b] # NoEntry

\* C23: reset_all clears every rate-limiter window and block, every monitor
\* window and violation count, the alert log and every temp block, and
\* leaves the whitelist and the blacklist as they were; after it a
\* whitelisted address is still allowed, a blacklisted address is still
\* denied, and every other address is in the state of a fresh address.
C23_ResetAll ==
    /\ (last.op = "reset_all" /\ last.done) =>
           /\ \A a \in Addr :
                  /\ requests[a] = << >> /\ blocked_ips[a] = NoEntry
                  /\ ip_requests[a] = << >> /\ ip_violations[a] = 0
                  /\ temp_blocks[a] = NoEntry
           /\ alerts = << >>
           /\ whitelist = hist.pre.whitelist
           /\ blacklist = hist.pre.blacklist
    /\ (last.op = "process_request" /\ last.done /\ hist.since_reset) =>
           /\ last.ip \in whitelist => last.allowed
           /\ last.ip \in blacklist => ~last.allowed

\* the timestamps of w less than window seconds old at time t
Recent(w, t, window) == SelectSeq(w, LAMBDA r : t - r < window)

\* C24: RateLimiter.is_allowed(a) with an unexpired block of a denies and
\* leaves a's window and block expiry as they are; with no such block and a
\* pruned window of max_requests or more it sets a block at
\* now + block_duration, denies and appends nothing; an allowed call, and
\* only an allowed call, appends one timestamp, now, to the pruned window.
C24_DenialNotRecorded ==
    [][last'.op = "rl.is_allowed" =>
         LET a == last'.ip
             held == blocked_ips[a] # NoEntry /\ now < blocked_ips[a]
             pruned == Recent(requests[a], now, cfg.time_window)
         IN  /\ held =>
                    /\ ~last'.allowed
                    /\ requests'[a] = requests[a]
                    /\ blocked_ips'[a] = blocked_ips[a]
             /\ (~held /\ Len(pruned) >= cfg.max_requests) =>
                    /\ ~last'.allowed
                    /\ blocked_ips'[a] = now + cfg.block_duration
                    /\ requests'[a] = pruned
             /\ last'.allowed = (~held /\ Len(pruned) < cfg.max_requests)
             /\ last'.allowed => requests'[a] = Append(pruned, now)
             /\ ~last'.allowed => Len(requests'[a]) <= Len(requests[a])]_vars

\* a call is denied on a block that is_allowed set earlier, one second
\* before the block runs out, the window still holding max_requests entries
C24_Witness ==
    /\ last.op = "rl.is_allowed" /\ ~last.allowed
    /\ last.rl = "IP blocked"
    /\ cfg.max_requests = 2 /\ cfg.block_duration = 2
    /\ Len(requests[last.ip]) = cfg.max_requests
    /\ blocked_ips[last.ip] = now + 1

\* C25: after every completed RateLimiter operation, in any interleaving of
\* is_allowed, get_request_count, is_blocked, block_ip, unblock_ip and
\* reset calls, the request window stored for every address holds at most
\* max_requests timestamps.
C25_WindowSize ==
    \A a \in Addr : Len(requests[a]) <= cfg.max_requests

\* the window is full, its oldest entry has aged out unpruned, and the
\* block the limit check set has been lifted by unblock_ip
C25_Witness ==
    /\ last.op = "rl.unblock_ip"
    /\ cfg.max_requests = MaxM
    /\ Len(requests[last.ip]) = cfg.max_requests
    /\ now - requests[last.ip][1] >= cfg.time_window
    /\ hist.auto[last.ip] # NoEntry
    /\ blocked_ips[last.ip] = NoEntry

\* C26: the violation count of an address goes down only through
\* reset_violations for that address or reset: not with the passage of
\* time, a rate back at or below the threshold, window pruning or an alert
\* that fired.
C26_ViolationsKept ==
    [][\A a \in Addr :
         ip_violations'[a] < ip_violations[a] =>
             \/ last'.op = "mon.reset_violations" /\ last'.ip = a
             \/ last'.op = "mon.reset"]_vars

\* after alerts fired for an address and a second passed, a request of its
\* was recorded at a rate below the threshold and the count is what it was
C26_Witness ==
    /\ last.op = "mon.record_request"
    /\ Len(ip_requests[last.ip]) = 1
    /\ now = 1
    /\ ip_violations[last.ip] >= cfg.alert_threshold
    /\ ip_violations[last.ip] = hist.pre.ip_violations[last.ip]
    /\ \E i \in 1..Len(alerts) : alerts[i].ip = last.ip

\* C27: record_request(a) appends one timestamp to a's pruned window, adds
\* exactly 1 to a's violation count iff the resulting rate is over the
\* threshold, and appends an alert iff the rate is over the threshold and
\* the new count is alert_threshold or more; so every alert in the log
\* carries a violation count of alert_threshold or more, and once the count
\* is there every over-threshold record_request of the address appends one.
C27_RecordRequest ==
    /\ \A i \in 1..Len(alerts) : alerts[i].violation_count >= cfg.alert_threshold
    /\ (last.op = "mon.record_request") =>
           LET a == last.ip
               was == hist.pre
               kept == Recent(was.ip_requests[a], now, cfg.detection_window)
               over == Against(Len(kept) + 1, 1) = 1
               fires == over /\ ip_violations[a] >= cfg.alert_threshold
               n == Len(alerts)
           IN  /\ ip_requests[a] = Append(kept, now)
               /\ ip_violations[a] =
                      was.ip_violations[a] + (IF over THEN 1 ELSE 0)
               /\ \A b \in Addr \ {a} :
                      /\ ip_requests[b] = was.ip_requests[b]
                      /\ ip_violations[b] = was.ip_violations[b]
               /\ IF fires
                  THEN /\ n > 0
                       /\ alerts[n].ip = a
                       /\ alerts[n].timestamp = now
                       /\ alerts[n].violation_count = ip_violations[a]
                       /\ Len(was.alerts) < 100 =>
                              SubSeq(alerts, 1, n - 1) = was.alerts
                  ELSE alerts = was.alerts

\* an address whose count had reached alert_threshold before is recorded
\* over the threshold again and a second alert for it is appended
C27_Witness ==
    /\ last.op = "mon.record_request"
    /\ hist.pre.ip_violations[last.ip] >= cfg.alert_threshold
    /\ ip_violations[last.ip] = hist.pre.ip_violations[last.ip] + 1
    /\ Len(alerts) = 2
    /\ alerts[1].ip = last.ip /\ alerts[2].ip = last.ip

\* the severity band of a window of len timestamps, for a rate over the
\* threshold
BandOf(len) ==
    IF Against(len, 10) = 1 THEN "CRITICAL"
    ELSE IF Against(len, 5) = 1 THEN "HIGH"
    ELSE IF Against(len, 2) = 1 THEN "MEDIUM"
    ELSE "LOW"

\* C28: is_suspicious(a) answers suspicious iff, with a's window pruned to
\* the last detection_window seconds, window size / detection_window is
\* strictly over the threshold; it then reports the severity of that rate
\* and the current violation count; it changes no violation count and not
\* the alert log.
C28_IsSuspicious ==
    (last.op = "mon.is_suspicious") =>
        LET a == last.ip
            was == hist.pre
            kept == Recent(was.ip_requests[a], now, cfg.detection_window)
        IN  /\ last.suspicious = (Against(Len(kept), 1) = 1)
            /\ ip_requests[a] = kept
            /\ last.suspicious =>
                   /\ Len(last.out) = 1
                   /\ last.out[1].len = Len(kept)
                   /\ last.out[1].severity = BandOf(Len(kept))
                   /\ last.out[1].violations = was.ip_violations[a]
            /\ ip_violations = was.ip_violations
            /\ alerts = was.alerts
            /\ \A b \in Addr \ {a} : ip_requests[b] = was.ip_requests[b]

\* an address with violations on its count is found unsuspicious at a rate
\* exactly at the threshold
C28_Witness ==
    /\ last.op = "mon.is_suspicious" /\ ~last.suspicious
    /\ ip_requests[last.ip] # << >>
    /\ Against(Len(ip_requests[last.ip]), 1) = 0
    /\ ip_violations[last.ip] > 0

\* C29: a process_request(a) whose IP-filter lookup answered Whitelisted
\* takes the whitelist path and returns allowed, without a call to the rate
\* limiter, even when another thread takes a off the whitelist or blocks a
\* permanently while the request is in flight.
C29_WhitelistRace ==
    /\ (hist.answered /\ thr["t1"].pc # "idle") =>
           thr["t1"].pc \in {"is_whitelisted", "whitelist_record"}
    /\ (hist.answered /\ last.op = "process_request" /\ last.done) =>
           last.allowed /\ last.by = "whitelist"

\* C30: get_request_count(a) returns the number of calls of a that
\* is_allowed admitted in the trailing time_window seconds, whatever calls
\* were made for other addresses and whatever calls of a were denied, and
\* the call changes no block entry and no other address's window.
C30_RequestCount ==
    [][last'.op = "rl.get_request_count" =>
         LET a == last'.ip
         IN  /\ last'.arg = Cardinality(AdmittedIn(a, now))
             /\ blocked_ips' = blocked_ips
             /\ \A b \in Addr \ {a} : requests'[b] = requests[b]]_vars

\* the count of a1 is 2 after three admitted calls, one of them aged out,
\* and a denied call that left a block, while a2 has calls of its own
C30_Witness ==
    /\ last.op = "rl.get_request_count" /\ last.ip = "a1"
    /\ last.arg = 2
    /\ Len(hist.admitted["a1"]) = 3
    /\ blocked_ips["a1"] # NoEntry
    /\ Len(requests["a2"]) = 1

\* C31: after RateLimiter.block_ip(a, d), at every time before now + d (now +
\* block_duration when no duration is given) is_blocked(a) returns true and
\* is_allowed(a) is denied; after unblock_ip(a) is_blocked(a) returns false;
\* block_ip(a) followed by unblock_ip(a) leaves the request window of a and
\* the windows and blocks of every other address as they were.
C31_AdminControl ==
    LET a == last.ip
    IN  /\ (/\ last.op \in {"rl.is_blocked", "rl.is_allowed"}
             /\ hist.manual[a] # NoEntry /\ now < hist.manual[a])
            => /\ last.op = "rl.is_blocked" => last.allowed
               /\ last.op = "rl.is_allowed" => ~last.allowed
        /\ (last.op = "rl.is_blocked" /\ hist.unblocked[a]) => ~last.allowed
        /\ hist.restored
            => /\ blocked_ips[a] = NoEntry
               /\ requests = hist.pre.requests
               /\ \A b \in Addr \ {a} :
                      blocked_ips[b] = hist.pre.blocked_ips[b]

\* is_blocked(a1) answers true one second after block_ip(a1, 2) while a2
\* holds a block of its own
C31_Witness ==
    /\ last.op = "rl.is_blocked" /\ last.ip = "a1" /\ last.allowed
    /\ hist.manual["a1"] = now + 1
    /\ blocked_ips["a2"] # NoEntry
    /\ requests["a1"] # << >>

\* the leaf locks thread t is inside
HeldBy(t) == { l \in Leaves : lock[l] = t }

\* C32: at most one thread is inside a leaf's lock at a time, a thread holds
\* at most one leaf lock at any moment of process_request, unblock_ip,
\* get_stats and reset_all, and a thread that holds a leaf's lock never
\* acquires or waits for the lock of another leaf.
C32_LockDiscipline ==
    /\ \A t \in Threads :
          /\ Cardinality(HeldBy(t)) <= 1
          /\ \A l \in HeldBy(t) :
                thr[t].pc # "idle" /\ WaitsFor(thr[t].pc) = l
    /\ \A t, u \in Threads :
          (thr[t].pc = "stats_recent" /\ thr[u].pc = "stats_recent") => t = u

\* t1 is inside the monitor's lock in get_stats while t2, in reset_all with
\* the limiter already reset, is about to ask for the same lock
C32_Witness ==
    /\ HeldBy("t1") = {"traffic_monitor"} /\ thr["t1"].pc = "stats_recent"
    /\ thr["t2"].pc = "reset_mon" /\ HeldBy("t2") = {}

\* C33: no address in the whitelist or in the blacklist has a temp-block
\* entry, whatever the interleaving of the list changes, temporary blocks,
\* unblocks, resets and lookups; an escalation of a request in flight that
\* runs after whitelist_ip(a) returned leaves no temp block on a.
C33_TempDisjoint ==
    \A a \in whitelist \cup blacklist : temp_blocks[a] = NoEntry

\* the rate-limit escalation of t2's request has just run for a1, which t1
\* whitelisted while the request was in flight
C33_Witness ==
    /\ last.op = "process_request" /\ last.by = "rate_limiter" /\ last.done
    /\ last.ip = "a1" /\ "a1" \in whitelist
    /\ thr["t2"].pc = "idle" /\ thr["t1"].pc = "idle"
    /\ temp_blocks["a1"] = NoEntry

\* C34: with concurrent process_request calls for one address and no
\* administrative call, the stored expiry of an unexpired temp block never
\* decreases: no escalation replaces it with an earlier one.
C34_ExpiryMonotone ==
    [][\A a \in Addr :
          (temp_blocks[a] # NoEntry /\ now < temp_blocks[a])
          => temp_blocks'[a] >= temp_blocks[a]]_vars

\* C35: when max_requests <= suspicious_threshold * detection_window and
\* detection_window <= time_window, calls run one at a time, each at one
\* instant, and only the coordinator is called: for an address that has
\* never been whitelisted the monitor window is never longer than the
\* limiter's window between calls, is_suspicious never reports the address
\* to process_request, and the anomaly block is never applied to it.
C35_WithinThreshold ==
    Within(cfg) =>
        \A a \in Addr \ (hist.wlever \cup whitelist) :
            /\ thr["t1"].pc = "idle"
                 => Len(ip_requests[a]) <= Len(requests[a])
            /\ (last.op = "process_request" /\ last.ip = a)
                 => ~last.suspicious
            /\ thr["t1"].ip = a => thr["t1"].pc # "escalate_suspicious"

\* a1, never whitelisted, has just been allowed its second request in two
\* seconds, which fills both windows to the threshold of one request a
\* second over two seconds
C35_Witness ==
    /\ Within(cfg) /\ cfg.max_requests = 2
    /\ "a1" \notin hist.wlever \cup whitelist
    /\ last.op = "process_request" /\ last.ip = "a1" /\ last.done
    /\ last.allowed /\ last.by = "all_checks_passed"
    /\ Len(requests["a1"]) = 2 /\ Len(ip_requests["a1"]) = 2
    /\ requests["a1"][1] < requests["a1"][2]

\* s is what pruning leaves of the window w: its latest entries
IsSuffix(s, w) ==
    /\ Len(s) <= Len(w)
    /\ s = SubSeq(w, Len(w) - Len(s) + 1, Len(w))

\* the window s is what pruning leaves of w, followed by one new entry
CountedIn(s, w) ==
    /\ Len(s) >= 1
    /\ IsSuffix(SubSeq(s, 1, Len(s) - 1), w)

\* C36: a request denied for suspicious activity has been appended to the
\* address's limiter window and to its monitor window and is still there
\* when the call returns; a request denied by the IP filter or by the rate
\* limiter has added no entry to either window.
C36_DeniedAccounting ==
    (last.op = "process_request" /\ last.done /\ ~last.allowed)
    => LET a == last.ip
       IN  /\ last.by = "ip_filter"
                => /\ requests[a] = hist.pre.requests[a]
                   /\ ip_requests[a] = hist.pre.ip_requests[a]
           /\ last.by = "rate_limiter"
                => /\ IsSuffix(requests[a], hist.pre.requests[a])
                   /\ ip_requests[a] = hist.pre.ip_requests[a]
           /\ last.by = ""
                => /\ last.suspicious
                   /\ CountedIn(requests[a], hist.pre.requests[a])
                   /\ CountedIn(ip_requests[a], hist.pre.ip_requests[a])

\* the second request of a1 within a second is denied for suspicious
\* activity and is in both windows, after the first
C36_Witness ==
    /\ last.op = "process_request" /\ last.done /\ ~last.allowed
    /\ last.by = "" /\ last.suspicious /\ last.ip = "a1"
    /\ Len(hist.pre.requests["a1"]) = 1
    /\ Len(requests["a1"]) = 2 /\ Len(ip_requests["a1"]) = 2
    /\ temp_blocks["a1"] # NoEntry

\* a1 holds an unexpired block of the filter or of the limiter
AutoBlocked ==
    \/ (temp_blocks["a1"] # NoEntry /\ now < temp_blocks["a1"])
    \/ (blocked_ips["a1"] # NoEntry /\ now < blocked_ips["a1"])

\* a request of a1 has just been allowed
Admitted ==
    /\ last.op = "process_request" /\ last.ip = "a1"
    /\ last.done /\ last.allowed

\* C37: with max_requests >= 1 and 5 * suspicious_threshold *
\* detection_window >= 1, an address that is not blacklisted and was only
\* ever blocked automatically is allowed its next request once it has sent
\* none for max(block_duration, 600, time_window, detection_window) seconds;
\* as time goes on, an automatically blocked address is eventually admitted.
C37_NoLockout ==
    /\ []((/\ last.op = "process_request" /\ last.done
           /\ hist.quiet /\ last.ip \notin blacklist)
          => last.allowed)
    /\ (AutoBlocked ~> Admitted)

\* a1, on no list and blocked for 600 seconds as suspicious at time 0, is
\* allowed its next request 600 seconds later by all the checks
C37_Witness ==
    /\ Admitted /\ hist.quiet /\ "a1" \notin whitelist
    /\ last.by = "all_checks_passed"
    /\ now = AnomalyBlockDuration
    /\ cfg.thr_den = 4 /\ Len(alerts) >= 1
    /\ temp_blocks["a1"] = NoEntry
====
